---------------------------- MODULE Spec2Model ----------------------------
(***************************************************************************)
(* A model of the codespeed analyzer (src/src/analyzer.ts) and of the      *)
(* diagnostics publisher that consumes it (src/src/diagnostics.ts).        *)
(*                                                                         *)
(* A line of source text is a sequence of one-character strings; a text is *)
(* the sequence of lines that text.split(/\r?\n/) yields.  The regular     *)
(* expressions of the rule scan are operators over such lines, written out *)
(* position by position.  Positions inside operators are 1-based; the      *)
(* character offsets stored in a finding's range are 0-based as in the     *)
(* source.                                                                 *)
(***************************************************************************)
EXTENDS Integers, Sequences, FiniteSets, TLC

(***************************************************************************)
(* State.                                                                  *)
(*                                                                         *)
(* An optional value (undefined or a value) is <<>> or <<value>>.          *)
(***************************************************************************)
VARIABLES
    lines,                       \* runStaticRules: the lines scanned so far
    lineNumber,                  \* runStaticRules: the loop counter
    loopIndents,                 \* runStaticRules: the scope stack
    collectionLiteralKindByVar,  \* runStaticRules: the binding map
    findings,                    \* runStaticRules: the output list
    DEFAULT_ENABLE_LLM,          \* analyzer.ts 32: fixed when the module is loaded
    apiKeyProvider,              \* analyzer.ts 29
    llmEnabled,                  \* analyzer.ts 30
    configured,                  \* history: the arguments of the configureAnalyzer calls recorded
    calls,                       \* the analyzePython invocations, in call order
    initialized,                 \* diagnostics.ts 7
    collection,                  \* diagnostics.ts 6: uri -> diagnostics, once created
    handledPythonUris,           \* extension.ts 14
    initialScanSuppression,      \* extension.ts 15
    timers,                      \* extension.ts 105: uris whose suppression timer is pending
    activated,                   \* activate() has run
    textDocuments,               \* vscode.workspace.textDocuments: the open documents
    docText,                     \* document.getText() of each document
    pendingOpen,                 \* open notifications the host has yet to deliver
    events,                      \* the invocations of handleDocumentEvent, in order
    debugLog                     \* extension.ts 117: the "Handling <uri> due to <reason>" lines

scanVars ==
    <<lines, lineNumber, loopIndents, collectionLiteralKindByVar, findings>>

analyzerVars ==
    <<DEFAULT_ENABLE_LLM, apiKeyProvider, llmEnabled, configured>>

diagnosticsVars ==
    <<initialized, collection>>

extensionVars ==
    <<handledPythonUris, initialScanSuppression, timers, activated, textDocuments,
      docText, pendingOpen, events, debugLog>>

vars ==
    <<lines, lineNumber, loopIndents, collectionLiteralKindByVar, findings,
      DEFAULT_ENABLE_LLM, apiKeyProvider, llmEnabled, configured, calls, initialized,
      collection, handledPythonUris, initialScanSuppression, timers, activated, textDocuments,
      docText, pendingOpen, events, debugLog>>

None ==
    <<>>

Some(x) ==
    <<x>>

(***************************************************************************)
(* Characters and character classes of the JavaScript regular expressions. *)
(***************************************************************************)
Lower ==
    {"a","b","c","d","e","f","g","h","i","j","k","l","m",
     "n","o","p","q","r","s","t","u","v","w","x","y","z"}

Upper ==
    {"A","B","C","D","E","F","G","H","I","J","K","L","M",
     "N","O","P","Q","R","S","T","U","V","W","X","Y","Z"}

Digits ==
    {"0","1","2","3","4","5","6","7","8","9"}

\* \s restricted to the two whitespace characters a source line is built from
Whitespace ==
    {" ", "\t"}

\* \w
WordChars ==
    Lower \cup Upper \cup Digits \cup {"_"}

\* [A-Za-z_]
IdentStart ==
    Lower \cup Upper \cup {"_"}

\* [a-zA-Z0-9_\[\].]
ConcatTargetChars ==
    WordChars \cup {"[", "]", "."}

Quotes ==
    {"\"", "'"}

\* the character at 1-based position i, or "" outside the line
At(line, i) ==
    IF i \in 1..Len(line) THEN line[i] ELSE ""

\* tok occurs in line starting at position i
HasAt(line, i, tok) ==
    /\ i >= 1
    /\ i + Len(tok) - 1 <= Len(line)
    /\ \A k \in 1..Len(tok) : line[i + k - 1] = tok[k]

Min(S) ==
    CHOOSE x \in S : \A y \in S : x <= y

\* Math.max
Max(a, b) ==
    IF a >= b THEN a ELSE b

\* String.prototype.indexOf: 0-based index of the first occurrence, or -1
IndexOf(line, tok) ==
    LET hits == {i \in 1..(Len(line) + 1) : HasAt(line, i, tok)}
    IN  IF hits = {} THEN -1 ELSE Min(hits) - 1

\* String.prototype.includes
Includes(line, tok) ==
    IndexOf(line, tok) >= 0

\* \b at position i: exactly one of the characters before and at i is a word character
WordBoundary(line, i) ==
    (At(line, i - 1) \in WordChars) # (At(line, i) \in WordChars)

\* the first position >= i whose character is not in class (Len(line)+1 if none): a greedy class*
RunEnd(line, i, class) ==
    Min({j \in i..(Len(line) + 1) : At(line, j) \notin class})

\* \s* starting at i
SkipWs(line, i) ==
    RunEnd(line, i, Whitespace)

(***************************************************************************)
(* Representative tokens and literals of the rule scan.                    *)
(***************************************************************************)
TokFor == <<"f","o","r"," ">>
TokWhile == <<"w","h","i","l","e"," ">>
TokPlusEq == <<"+","=">>
TokPlus == <<"+">>
TokStrCall == <<"s","t","r","(">>
TokFormatCall == <<"f","o","r","m","a","t","(">>
TokReCompile == <<"r","e",".","c","o","m","p","i","l","e">>
TokPop == <<".","p","o","p">>
TokPopCall == <<".","p","o","p","(">>
TokIn == <<"i","n">>
TokSpIn == <<" ","i","n"," ">>
TokApply == <<".","a","p","p","l","y">>
TokApplyCall == <<".","a","p","p","l","y","(">>
TokAxis1 == <<"a","x","i","s","=","1">>
TokIterrows == <<"i","t","e","r","r","o","w","s">>
TokIterrowsCall == <<"i","t","e","r","r","o","w","s","(",")">>


(***************************************************************************)
(* The patterns of runStaticRules, one operator per regular expression or  *)
(* substring test.                                                         *)
(***************************************************************************)
\* line.match(/^\s*/)[0].length
IndentOf(line) ==
    SkipWs(line, 1) - 1

\* line.trimStart()
TrimStart(line) ==
    SubSeq(line, SkipWs(line, 1), Len(line))

\* trimmed.startsWith('for ') || trimmed.startsWith('while ')
IsLoopHeader(line) ==
    LET trimmed == TrimStart(line)
    IN  HasAt(trimmed, 1, TokFor) \/ HasAt(trimmed, 1, TokWhile)

\* /^\s*([A-Za-z_][A-Za-z0-9_]*)\s*=\s*(\[|\()/ : <<varName, opener>>, or <<>> when there is no match
AssignMatch(line) ==
    LET i == SkipWs(line, 1)
        j == RunEnd(line, i, WordChars)
        k == SkipWs(line, j)
        m == SkipWs(line, k + 1)
    IN  IF /\ At(line, i) \in IdentStart
           /\ At(line, k) = "="
           /\ At(line, m) \in {"[", "("}
        THEN <<SubSeq(line, i, j - 1), At(line, m)>>
        ELSE <<>>

\* (f?["']|str\(|format\(|\() at position i
StringOperandAt(line, i) ==
    \/ At(line, i) \in Quotes
    \/ At(line, i) = "f" /\ At(line, i + 1) \in Quotes
    \/ HasAt(line, i, TokStrCall)
    \/ HasAt(line, i, TokFormatCall)
    \/ At(line, i) = "("

\* /\b[a-zA-Z0-9_\[\].]+\s*\+=\s*(f?["']|str\(|format\(|\().*/.test(line)
AugAssignPattern(line) ==
    \E i \in 1..Len(line) :
        /\ WordBoundary(line, i)
        /\ line[i] \in ConcatTargetChars
        /\ LET k == SkipWs(line, RunEnd(line, i, ConcatTargetChars))
           IN  /\ HasAt(line, k, TokPlusEq)
               /\ StringOperandAt(line, SkipWs(line, k + 2))

\* /\b([a-zA-Z0-9_\[\].]+)\s*=\s*\1\s*\+\s*(f?["']|str\(|format\(|\().*/.test(line)
ExplicitConcatPattern(line) ==
    \E i \in 1..Len(line) :
        /\ WordBoundary(line, i)
        /\ line[i] \in ConcatTargetChars
        /\ LET j == RunEnd(line, i, ConcatTargetChars)
               target == SubSeq(line, i, j - 1)
               k == SkipWs(line, j)
               m == SkipWs(line, k + 1)
               n == SkipWs(line, m + Len(target))
           IN  /\ At(line, k) = "="
               /\ HasAt(line, m, target)
               /\ At(line, n) = "+"
               /\ StringOperandAt(line, SkipWs(line, n + 1))

\* line.includes('re.compile')
ReCompilePattern(line) ==
    Includes(line, TokReCompile)

\* /\.pop\(\s*0\s*\)/.test(line)
PopFrontPattern(line) ==
    \E i \in 1..Len(line) :
        /\ HasAt(line, i, TokPopCall)
        /\ LET k == SkipWs(line, i + Len(TokPopCall))
           IN  /\ At(line, k) = "0"
               /\ At(line, SkipWs(line, k + 1)) = ")"

\* the start positions of the matches of /\bin\s+([A-Za-z_][A-Za-z0-9_]*)\b/
InVarStarts(line) ==
    {p \in 1..Len(line) :
        /\ WordBoundary(line, p)
        /\ HasAt(line, p, TokIn)
        /\ At(line, p + 2) \in Whitespace
        /\ At(line, SkipWs(line, p + 2)) \in IdentStart}

\* the name captured by the match that starts at p
InVarNameAt(line, p) ==
    LET q == SkipWs(line, p + 2)
    IN  SubSeq(line, q, RunEnd(line, q, WordChars) - 1)

\* line.match(/\bin\s+([A-Za-z_][A-Za-z0-9_]*)\b/): <<varName>> of the leftmost match, or <<>>
InVarMatch(line) ==
    IF InVarStarts(line) = {}
    THEN <<>>
    ELSE <<InVarNameAt(line, Min(InVarStarts(line)))>>

\* /\bin\s*\[/.test(line) || /\bin\s*\(/.test(line)
InLiteralPattern(line) ==
    \E p \in 1..Len(line) :
        /\ WordBoundary(line, p)
        /\ HasAt(line, p, TokIn)
        /\ At(line, SkipWs(line, p + 2)) \in {"[", "("}

\* line.includes('.apply(') && line.includes('axis=1')
ApplyRowwisePattern(line) ==
    Includes(line, TokApplyCall) /\ Includes(line, TokAxis1)

\* line.includes('iterrows()')
IterrowsPattern(line) ==
    Includes(line, TokIterrowsCall)

\* a variant without the Math.max(0, ...) clamp: a token that is not found starts at -1
buildRangeUnclamped(lineNo, line, token) ==
    LET startChar == IndexOf(line, token)
        endChar == Max(startChar + Len(token), startChar + 1)
    IN  [startLine |-> lineNo, startChar |-> startChar,
         endLine |-> lineNo, endChar |-> endChar]

\* buildRange(lineNumber, line, token)
buildRange(lineNo, line, token) ==
    LET found == IndexOf(line, token)
        startChar == Max(0, found)
        endChar == Max(startChar + Len(token), startChar + 1)
    IN  [startLine |-> lineNo, startChar |-> startChar,
         endLine |-> lineNo, endChar |-> endChar]

(***************************************************************************)
(* Findings.  A message is a sequence of strings: a tag naming the fixed   *)
(* text, followed by the values interpolated into it.  notes is <<>> when  *)
(* the finding has none.                                                   *)
(***************************************************************************)
Finding(ruleId, message, severity, range, confidence, needsContext) ==
    [ruleId |-> ruleId, message |-> message, severity |-> severity, range |-> range,
     confidence |-> confidence, needsContext |-> needsContext, notes |-> <<>>]

\* analyzer.ts 98-108
StringConcatFindings(lineNo, line, insideLoop) ==
    LET stringConcatAugAssign == insideLoop /\ AugAssignPattern(line)
        stringConcatExplicit == insideLoop /\ ExplicitConcatPattern(line)
    IN  IF stringConcatAugAssign \/ stringConcatExplicit
        THEN <<Finding("loop.string-concat", <<"Building strings with + or += inside loops">>,
                       "warning",
                       buildRange(lineNo, line,
                                  IF stringConcatExplicit THEN TokPlus ELSE TokPlusEq),
                       "high", FALSE)>>
        ELSE <<>>

\* analyzer.ts 110-119
ReCompileFindings(lineNo, line, insideLoop) ==
    IF insideLoop /\ ReCompilePattern(line)
    THEN <<Finding("loop.re-compile", <<"Regular expressions compiled inside loops">>,
                   "warning", buildRange(lineNo, line, TokReCompile), "high", FALSE)>>
    ELSE <<>>

\* analyzer.ts 121-130
PopFrontFindings(lineNo, line, insideLoop) ==
    IF insideLoop /\ PopFrontPattern(line)
    THEN <<Finding("loop.pop-front", <<"list.pop(0) inside loops is O(n)">>,
                   "warning", buildRange(lineNo, line, TokPop), "high", FALSE)>>
    ELSE <<>>

\* analyzer.ts 136-151, case A: membership against a tracked list/tuple variable
MembershipVarFindings(lineNo, line, insideLoop, kindByVar) ==
    LET inVarMatch == InVarMatch(line)
    IN  IF insideLoop /\ inVarMatch # <<>> /\ inVarMatch[1] \in DOMAIN kindByVar
        THEN <<Finding("ds.list-membership",
                       <<"Membership checks against a ", kindByVar[inVarMatch[1]],
                         " inside loops; constSet = set(">> \o inVarMatch[1],
                       "warning", buildRange(lineNo, line, TokSpIn), "high", FALSE)>>
        ELSE <<>>

\* analyzer.ts 153-165, case B: explicit list/tuple literal membership
MembershipLiteralFindings(lineNo, line, insideLoop) ==
    IF insideLoop /\ InLiteralPattern(line)
    THEN <<Finding("ds.list-membership",
                   <<"Membership checks against list/tuple literals inside loops">>,
                   "warning", buildRange(lineNo, line, TokSpIn), "medium", TRUE)>>
    ELSE <<>>

\* analyzer.ts 168-177
ApplyRowwiseFindings(lineNo, line) ==
    IF ApplyRowwisePattern(line)
    THEN <<Finding("pandas.apply-rowwise", <<"DataFrame.apply(axis=1) runs Python for each row">>,
                   "info", buildRange(lineNo, line, TokApply), "medium", TRUE)>>
    ELSE <<>>

\* analyzer.ts 179-188
IterrowsFindings(lineNo, line) ==
    IF IterrowsPattern(line)
    THEN <<Finding("pandas.iterrows", <<"DataFrame.iterrows() is slow for large frames">>,
                   "info", buildRange(lineNo, line, TokIterrows), "medium", TRUE)>>
    ELSE <<>>

(***************************************************************************)
(* One iteration of the scan loop of runStaticRules (analyzer.ts 68-189).  *)
(* The scan state is the function's locals: loopIndents, the binding map   *)
(* collectionLiteralKindByVar and the findings emitted so far.             *)
(***************************************************************************)
\* a variant of PopLoops with `if` in place of `while`: at most one entry is popped
PopLoopsOnce(stack, indent) ==
    IF Len(stack) > 0 /\ indent <= stack[Len(stack)]
    THEN SubSeq(stack, 1, Len(stack) - 1)
    ELSE stack

RECURSIVE PopLoopsBelow(_, _)
\* a variant of PopLoops with `<` in place of `<=`: a line at a loop's own indentation
\* leaves the loop open
PopLoopsBelow(stack, indent) ==
    IF Len(stack) > 0 /\ indent < stack[Len(stack)]
    THEN PopLoopsBelow(SubSeq(stack, 1, Len(stack) - 1), indent)
    ELSE stack

RECURSIVE PopLoops(_, _)
\* while (loopIndents.length > 0 && indent <= loopIndents[last]) loopIndents.pop()
PopLoops(stack, indent) ==
    IF Len(stack) > 0 /\ indent <= stack[Len(stack)]
    THEN PopLoops(SubSeq(stack, 1, Len(stack) - 1), indent)
    ELSE stack

\* the scope stack after the pops and the push of one line
LoopIndentsAfter(stack, line) ==
    LET popped == PopLoops(stack, IndentOf(line))
    IN  IF IsLoopHeader(line) THEN Append(popped, IndentOf(line)) ELSE popped

\* a variant of InsideLoop with `>=` in place of `>`
InsideLoopOrAt(stack, indent) ==
    \E k \in 1..Len(stack) : indent >= stack[k]

\* loopIndents.some((loopIndent) => indent > loopIndent)
InsideLoop(stack, indent) ==
    \E k \in 1..Len(stack) : indent > stack[k]

\* a variant in which an assignment of anything but a list/tuple literal forgets the
\* name it assigns
BindingsAfterForgetting(kindByVar, line) ==
    LET assignMatch == AssignMatch(line)
        i == SkipWs(line, 1)
        j == RunEnd(line, i, WordChars)
        name == SubSeq(line, i, j - 1)
    IN  IF assignMatch # <<>>
        THEN (assignMatch[1] :> (IF assignMatch[2] = "[" THEN "list" ELSE "tuple")) @@ kindByVar
        ELSE IF At(line, i) \in IdentStart /\ At(line, SkipWs(line, j)) = "="
             THEN [v \in DOMAIN kindByVar \ {name} |-> kindByVar[v]]
             ELSE kindByVar

\* collectionLiteralKindByVar.set(varName, opener === '[' ? 'list' : 'tuple')
BindingsAfter(kindByVar, line) ==
    LET assignMatch == AssignMatch(line)
    IN  IF assignMatch # <<>>
        THEN (assignMatch[1] :> (IF assignMatch[2] = "[" THEN "list" ELSE "tuple")) @@ kindByVar
        ELSE kindByVar

\* a variant in which the literal membership test is an else-branch of the
\* bound-name membership test, so one line reports at most one of the two
LineFindingsMembershipElse(lineNo, line, insideLoop, kindByVar) ==
    LET byVar == MembershipVarFindings(lineNo, line, insideLoop, kindByVar)
    IN  StringConcatFindings(lineNo, line, insideLoop)
        \o ReCompileFindings(lineNo, line, insideLoop)
        \o PopFrontFindings(lineNo, line, insideLoop)
        \o byVar
        \o (IF byVar = <<>>
            THEN MembershipLiteralFindings(lineNo, line, insideLoop)
            ELSE <<>>)
        \o ApplyRowwiseFindings(lineNo, line)
        \o IterrowsFindings(lineNo, line)

\* analyzer.ts 93-188: the detectors of one loop iteration, in source order
LineFindings(lineNo, line, insideLoop, kindByVar) ==
    StringConcatFindings(lineNo, line, insideLoop)
    \o ReCompileFindings(lineNo, line, insideLoop)
    \o PopFrontFindings(lineNo, line, insideLoop)
    \o MembershipVarFindings(lineNo, line, insideLoop, kindByVar)
    \o MembershipLiteralFindings(lineNo, line, insideLoop)
    \o ApplyRowwiseFindings(lineNo, line)
    \o IterrowsFindings(lineNo, line)

EmptyMap ==
    [v \in {} |-> "list"]

\* mutant of ScanStart: the findings list is a module-level array that is never reset,
\* so a scan starts with the findings of the invocation before it
ScanStartCarried ==
    [loopIndents |-> <<>>,
     kindByVar |-> [v \in {} |-> "list"],
     findings |-> IF calls = <<>> THEN <<>> ELSE calls[Len(calls)].ruleFindings]

\* the locals at the top of runStaticRules (analyzer.ts 61-66)
ScanStart ==
    [loopIndents |-> <<>>, kindByVar |-> EmptyMap, findings |-> <<>>]

\* the body of the for loop for line number lineNumber (0-based)
ScanLine(st, lineNo, line) ==
    LET loops == LoopIndentsAfter(st.loopIndents, line)
        insideLoop == InsideLoop(loops, IndentOf(line))
        kinds == BindingsAfter(st.kindByVar, line)
    IN  [loopIndents |-> loops,
         kindByVar |-> kinds,
         findings |-> st.findings \o LineFindings(lineNo, line, insideLoop, kinds)]

RECURSIVE ScanPrefix(_, _)
\* the scan state after the first n lines
ScanPrefix(textLines, n) ==
    IF n = 0
    THEN ScanStart
    ELSE ScanLine(ScanPrefix(textLines, n - 1), n - 1, textLines[n])

\* runStaticRules(text), text given as its lines
runStaticRules(textLines) ==
    ScanPrefix(textLines, Len(textLines)).findings

(***************************************************************************)
(* The lines the rule scan is run on: each line body below at each         *)
(* indentation of Indents.                                                 *)
(***************************************************************************)
\* a loop header: for i in r:
BodyFor ==
    <<"f","o","r"," ","i"," ","i","n"," ","r",":">>

\* augmented string concatenation: s += "x"
BodyAugConcat ==
    <<"s"," ","+","="," ","\"","x","\"">>

\* an empty line (whitespace-only once indented): (nothing)
BodyBlank ==
    <<>>

\* binds a to a list literal: a = [1]
BodyBindList ==
    <<"a"," ","="," ","[","1","]">>

\* membership against the name a: if x in a:
BodyInVar ==
    <<"i","f"," ","x"," ","i","n"," ","a",":">>

\* two membership tests, the first against the unbound b: if y in b and x in a:
BodyInOtherThenVar ==
    <<"i","f"," ","y"," ","i","n"," ","b"," ","a","n","d"," ","x"," ","i","n"," ","a",":">>

\* membership against a and against an inline literal: if x in a or y in [1]:
BodyInVarAndLiteral ==
    <<"i","f"," ","x"," ","i","n"," ","a"," ","o","r"," ","y"," ","i","n"," ","[","1","]",":">>

\* three loop detectors on one line: s += str(q.pop(0)); re.compile(e)
BodyConcatCompilePop ==
    <<"s"," ","+","="," ","s","t","r","(","q",".","p","o","p","(","0",")",")",";"," ","r","e",".","c","o","m","p","i","l","e","(","e",")">>

\* a loop header with both pandas patterns: for k in d.iterrows(): d.apply(f, axis=1)
BodyPandas ==
    <<"f","o","r"," ","k"," ","i","n"," ","d",".","i","t","e","r","r","o","w","s","(",")",":"," ","d",".","a","p","p","l","y","(","f",","," ","a","x","i","s","=","1",")">>

\* matches no pattern: return s
BodyReturn ==
    <<"r","e","t","u","r","n"," ","s">>

LineBodies ==
    {BodyFor,
     BodyAugConcat,
     BodyBlank,
     BodyBindList,
     BodyInVar,
     BodyInOtherThenVar,
     BodyInVarAndLiteral,
     BodyConcatCompilePop,
     BodyPandas,
     BodyReturn}

Indents ==
    {0, 1}

\* body preceded by n spaces
Indented(n, body) ==
    [k \in 1..n |-> " "] \o body

RuleLines ==
    {Indented(n, body) : n \in Indents, body \in LineBodies}

\* the longest text the rule scan is explored on, in lines
MaxLines == 3

(***************************************************************************)
(* The lines the scope stack is explored on: loop headers, a statement and *)
(* blank or whitespace-only lines, at three indentations.                  *)
(***************************************************************************)
\* a loop header that tests membership in a literal: for x in [1]:
BodyForLiteral ==
    <<"f","o","r"," ","x"," ","i","n"," ","[","1","]",":">>

\* a loop header: while q:
BodyWhile ==
    <<"w","h","i","l","e"," ","q",":">>

ScopeBodies ==
    {BodyForLiteral, BodyWhile, BodyAugConcat, BodyBlank}

ScopeIndents ==
    {0, 1, 2}

ScopeLines ==
    {Indented(n, body) : n \in ScopeIndents, body \in ScopeBodies}

\* the longest text the scope stack is explored on, in lines
MaxScopeLines == 4

(***************************************************************************)
(* The lines the binding map is explored on: literal and non-literal       *)
(* assignments of a, a literal assignment of b, a function header, a loop  *)
(* header and membership tests of a, each at each indentation of Indents.  *)
(***************************************************************************)
\* binds b to a tuple literal: b = (1)
BodyBindOther ==
    <<"b"," ","="," ","(","1",")">>

\* assigns a something that is no literal: a = 1
BodyRebind ==
    <<"a"," ","="," ","1">>

\* a function header: def f():
BodyDef ==
    <<"d","e","f"," ","f","(",")",":">>

\* binds a to a tuple literal and tests membership in a on the same line: a = (x in a)
BodyBindAndTest ==
    <<"a"," ","="," ","(","x"," ","i","n"," ","a",")">>

BindingBodies ==
    {BodyBindList, BodyBindOther, BodyRebind, BodyDef, BodyFor, BodyInVar,
     BodyBindAndTest}

BindingLines ==
    {Indented(n, body) : n \in Indents, body \in BindingBodies}

\* the longest text the binding map is explored on, in lines
MaxBindingLines == 4

(***************************************************************************)
(* The lines the finding ranges are explored on: every detector fires on   *)
(* one of them, the membership detectors also on lines that do not hold    *)
(* their token ' in ' verbatim.                                            *)
(***************************************************************************)
\* membership against the name a, a tab after `in`: if x in<TAB>a:
BodyInTab ==
    <<"i","f"," ","x"," ","i","n","\t","a",":">>

\* the shortest literal membership test: in(
BodyInParen ==
    <<"i","n","(">>

\* explicit string concatenation: s = s + "x"
BodyExplicitConcat ==
    <<"s"," ","="," ","s"," ","+"," ","\"","x","\"">>

RangeBodies ==
    {BodyFor, BodyBindList, BodyInVar, BodyInTab, BodyInParen, BodyExplicitConcat,
     BodyConcatCompilePop, BodyPandas}

RangeLines ==
    {Indented(n, body) : n \in Indents, body \in RangeBodies}

\* the longest text the finding ranges are explored on, in lines
MaxRangeLines == 3

(***************************************************************************)
(* The documents analyzePython is called on: the two scenarios of the      *)
(* extension's tests and texts with each mix of finding confidences.       *)
(***************************************************************************)
\* extension.test.ts 172-176: no line matches a pattern
TextClean ==
    <<<<"d","e","f"," ","t","o","t","a","l","(","v","a","l","u","e","s",")",":">>,
      <<" "," "," "," ","r","e","t","u","r","n"," ","s","u","m","(","v","a","l","u","e","s",")">>,
      <<>>>>

\* extension.test.ts 150-157: one high-confidence finding
TextHotLoop ==
    <<<<"d","e","f"," ","b","u","i","l","d","(",")",":">>,
      <<" "," "," "," ","s"," ","="," ","\"","\"">>,
      <<" "," "," "," ","f","o","r"," ","i"," ","i","n"," ","r","a","n","g","e","(","5",")",":">>,
      <<" "," "," "," "," "," "," "," ","s"," ","+","="," ","\"","x","\"">>,
      <<" "," "," "," ","r","e","t","u","r","n"," ","s">>,
      <<>>>>

\* one medium-confidence finding that needs context
TextLiteral ==
    <<<<"f","o","r"," ","i"," ","i","n"," ","r",":">>,
      <<" ","i","f"," ","x"," ","i","n"," ","[","1","]",":">>>>

\* a high-confidence finding followed by two that need context
TextMixed ==
    <<<<"f","o","r"," ","i"," ","i","n"," ","r",":">>,
      <<" ","s"," ","+","="," ","\"","x","\"">>,
      <<" ","i","f"," ","x"," ","i","n"," ","[","1","]",":">>,
      <<"d",".","i","t","e","r","r","o","w","s","(",")">>>>

\* the empty document: "".split(/\r?\n/) is [""]
TextEmpty ==
    <<<<>>>>

\* a loop whose body matches no pattern
TextWhileCount ==
    <<<<"w","h","i","l","e"," ","q",":">>,
      <<" ","n"," ","+","="," ","1">>>>

SampleTexts ==
    {TextClean, TextHotLoop, TextLiteral, TextMixed, TextEmpty, TextWhileCount}

(***************************************************************************)
(* The documents the context window is explored on: n lines of comments of *)
(* varying length, one or two of them replaced by a line that the          *)
(* pandas.iterrows rule reports with needsContext.                         *)
(***************************************************************************)
\* the longest such document, in lines
MaxDocLines == 14

\* a line no rule reports: 0, 1 or 2 comment characters, by line index
CommentLine(k) ==
    [j \in 1..(k % 3) |-> "#"]

\* a line that needs context: d.iterrows()
IterrowsLine ==
    <<"d",".","i","t","e","r","r","o","w","s","(",")">>

\* the document of n lines whose lines at the (0-based) indices of `at` need context
WindowText(n, at) ==
    [k \in 1..n |-> IF (k - 1) \in at THEN IterrowsLine ELSE CommentLine(k - 1)]

\* every such document with one or two lines that need context
WindowTexts ==
    {WindowText(n, {a, b}) : n \in 1..MaxDocLines, a \in 0..(MaxDocLines - 1),
                             b \in 0..(MaxDocLines - 1)}

(***************************************************************************)
(* Inputs of the analyzer: configurations, credential lookups, responses.  *)
(***************************************************************************)
Uris ==
    {"file:///w/a.py"}

Reasons ==
    {"onDidOpenTextDocument", "onDidChangeTextDocument"}

\* the documents of the workspace: one Python document and one plain-text document
DocUris ==
    Uris \cup {"file:///w/notes.txt"}

\* document.languageId
LanguageId(uri) ==
    IF uri \in Uris THEN "python" ELSE "plaintext"

PYTHON_LANGUAGE_ID ==
    "python"

\* the reasons handleDocumentEvent is called with (extension.ts 90-92, 106)
EventReasons ==
    {"initial-scan", "onDidOpenTextDocument", "onDidChangeTextDocument",
     "onDidSaveTextDocument"}

\* the texts an edit leaves in a document
EditTexts ==
    {TextClean, TextLiteral}

Providers ==
    {"secretStorage"}

\* the { getApiKey?, enableLLM? } arguments of configureAnalyzer and initDiagnostics
Configs ==
    [getApiKey : {None} \cup {Some(p) : p \in Providers},
     enableLLM : {None, Some(TRUE), Some(FALSE)}]

\* what a credential lookup resolves to: undefined, the empty string or a key
KeyValues ==
    {None, Some(""), Some("sk-1")}

\* how an awaited credential lookup settles
KeyOutcomes ==
    [settled : {"fulfilled"}, value : KeyValues]
    \cup [settled : {"rejected"}, value : {None}]

\* the items a service reply may list; a field the item omits is <<>>
ItemSuggestion ==
    [ruleId |-> Some("llm.cache"), message |-> Some("cache the lookup"),
     severity |-> Some("Warning"), confidence |-> Some("medium"), notes |-> Some("n1")]

ItemBare ==
    [ruleId |-> Some("llm.vectorize"), message |-> Some("vectorize"),
     severity |-> None, confidence |-> None, notes |-> None]

ItemNoMessage ==
    [ruleId |-> Some("llm.partial"), message |-> None,
     severity |-> Some("error"), confidence |-> Some("high"), notes |-> None]

\* the body of an HTTP response, by how far it decodes:
\*   not-json      response.json() rejects
\*   no-content    an envelope without choices[0].message.content (an error envelope)
\*   text          content is not JSON
\*   object        content is JSON but not an array
\*   array         content is a JSON array of items
Body(kind, items) ==
    [kind |-> kind, items |-> items]

ResponseBodies ==
    {Body("not-json", <<>>), Body("no-content", <<>>), Body("text", <<>>),
     Body("object", <<>>), Body("array", <<>>), Body("array", <<ItemSuggestion>>),
     Body("array", <<ItemNoMessage, ItemBare>>)}

NoBody ==
    Body("none", <<>>)

HttpStatuses ==
    {200, 500}

\* how the awaited fetch settles: rejected (network error) or a response with a status
FetchOutcomes ==
    [settled : {"fulfilled"}, status : HttpStatuses]
    \cup [settled : {"rejected"}, status : {0}]

\* the analyzePython invocations of one behaviour under Spec; SpecPairs allows one more
MaxCalls == 1

(***************************************************************************)
(* analyzer.ts: configuration, the augmentation gate and the Augmentor.    *)
(***************************************************************************)
\* analyzer.ts 206
contextWindow == 12

\* Math.min
MinOf(a, b) ==
    IF a <= b THEN a ELSE b

\* a value used as a condition: undefined and the empty string are falsy
Truthy(opt) ==
    opt # None /\ opt[1] # ""

\* mutant of EffectiveEnableLLM: || in place of ??, an explicit false falls through to the default
EffectiveEnableLLMOr ==
    (llmEnabled # None /\ llmEnabled[1]) \/ DEFAULT_ENABLE_LLM

\* llmEnabled ?? DEFAULT_ENABLE_LLM
EffectiveEnableLLM ==
    IF llmEnabled # None THEN llmEnabled[1] ELSE DEFAULT_ENABLE_LLM

\* finding.confidence === 'low' || finding.needsContext (analyzer.ts 41), in the operand order of line 208
Qualifies(finding) ==
    finding.needsContext \/ finding.confidence = "low"

\* mutant of NeedsLLM: every in place of some, true of the empty list
NeedsLLMEvery(ruleFindings) ==
    \A k \in 1..Len(ruleFindings) : Qualifies(ruleFindings[k])

\* ruleFindings.some(...)
NeedsLLM(ruleFindings) ==
    \E k \in 1..Len(ruleFindings) : Qualifies(ruleFindings[k])

\* a variant of AnchorIndex that takes the last qualifying finding
AnchorIndexLast(existingFindings) ==
    LET hits == {k \in 1..Len(existingFindings) : Qualifies(existingFindings[k])}
    IN  IF hits = {} THEN 0 ELSE CHOOSE k \in hits : \A h \in hits : h <= k

\* existingFindings.find(...): the index of the anchor, 0 when there is none
AnchorIndex(existingFindings) ==
    LET hits == {k \in 1..Len(existingFindings) : Qualifies(existingFindings[k])}
    IN  IF hits = {} THEN 0 ELSE Min(hits)

\* severity.toLowerCase() on the severities a reply may carry
ToLowerCase(str) ==
    CASE str = "Warning" -> "warning"
      [] str = "WARN" -> "warn"
      [] str = "ERROR" -> "error"
      [] str = "Hint" -> "hint"
      [] OTHER -> str

\* normalizeSeverity(severity)
normalizeSeverity(severity) ==
    IF ~Truthy(severity)
    THEN "info"
    ELSE LET normalized == ToLowerCase(severity[1])
         IN  IF normalized = "error" THEN "error"
             ELSE IF normalized = "warning" \/ normalized = "warn" THEN "warning"
             ELSE IF normalized = "hint" THEN "hint"
             ELSE "info"

\* the Finding built from one item of the reply (analyzer.ts 266-279)
ItemFinding(item, textLines, startLine, endLine) ==
    [ruleId |-> IF Truthy(item.ruleId) THEN item.ruleId[1] ELSE "llm.suggestion",
     message |-> item.message,
     severity |-> normalizeSeverity(item.severity),
     range |-> [startLine |-> startLine,
                startChar |-> 0,
                endLine |-> endLine - 1,
                endChar |-> IF endLine \in 1..Len(textLines) THEN Len(textLines[endLine]) ELSE 0],
     confidence |-> IF item.confidence # None THEN item.confidence[1] ELSE "low",
     needsContext |-> FALSE,
     notes |-> item.notes]

\* .filter((item) => Boolean(item?.ruleId && item?.message))
KeepItem(item) ==
    Truthy(item.ruleId) /\ Truthy(item.message)

RECURSIVE MapItems(_, _, _, _)
\* parsed.filter(...).map(...)
MapItems(items, textLines, startLine, endLine) ==
    IF items = <<>>
    THEN <<>>
    ELSE (IF KeepItem(Head(items))
          THEN <<ItemFinding(Head(items), textLines, startLine, endLine)>>
          ELSE <<>>)
         \o MapItems(Tail(items), textLines, startLine, endLine)

\* analyzer.ts 250-283: what runLlmPass returns for a response body.  response.json()
\* rejecting, JSON.parse throwing and parsed.filter not being a function all end in the
\* catch block; a missing or empty content returns [] at line 253.
DecodeBody(body, textLines, startLine, endLine) ==
    IF body.kind = "array"
    THEN MapItems(body.items, textLines, startLine, endLine)
    ELSE <<>>

\* an analyzePython invocation that has not run yet
NewCall(caller, uri, reason, text) ==
    [caller |-> caller, uri |-> uri, reason |-> reason, text |-> text,
     pc |-> "start", exit |-> 0, ruleFindings |-> <<>>, provider |-> None, key |-> None,
     fetched |-> FALSE, startLine |-> 0, endLine |-> 0, status |-> 0, body |-> NoBody,
     llmFindings |-> <<>>, result |-> <<>>, diagnostics |-> <<>>]

\* the return statement at source line `exit` of analyzePython: its promise is fulfilled
Resolve(call, exit, value) ==
    [call EXCEPT !.pc = "resolved", !.exit = exit, !.result = value]

\* a variant of analyzePythonUnder that fetches the credential before looking at the
\* rule findings
analyzePythonUnderKeyFirst(call, enabled, provider) ==
    LET ruleFindings == runStaticRules(call.text)
        scanned == [call EXCEPT !.ruleFindings = ruleFindings]
    IN  IF ~enabled
        THEN Resolve(scanned, 48, ruleFindings)
        ELSE [scanned EXCEPT !.pc = "awaitKey", !.provider = provider]

\* analyzer.ts 40-51: analyzePython up to its first suspension, under the configuration
\* in force when it is called: `enabled` is llmEnabled ?? DEFAULT_ENABLE_LLM
analyzePythonUnder(call, enabled, provider) ==
    LET ruleFindings == runStaticRules(call.text)
        needsLLM == NeedsLLM(ruleFindings)
        scanned == [call EXCEPT !.ruleFindings = ruleFindings]
    IN  IF ~needsLLM
        THEN Resolve(scanned, 44, ruleFindings)
        ELSE IF ~enabled
        THEN Resolve(scanned, 48, ruleFindings)
        ELSE [scanned EXCEPT !.pc = "awaitKey", !.provider = provider]

\* analyzer.ts 40-51: analyzePython up to its first suspension
analyzePythonStart(call) ==
    analyzePythonUnder(call, EffectiveEnableLLM, apiKeyProvider)

\* a variant of runLlmPassStart whose window ends one line later (an inclusive end)
runLlmPassStartInclusiveEnd(call) ==
    LET anchor == AnchorIndex(call.ruleFindings)
    IN  IF anchor = 0
        THEN Resolve(call, 57, call.ruleFindings \o <<>>)
        ELSE [call EXCEPT
                !.pc = "awaitFetch",
                !.fetched = TRUE,
                !.startLine = Max(0, call.ruleFindings[anchor].range.startLine
                                       - (contextWindow \div 2)),
                !.endLine = MinOf(Len(call.text),
                                  call.ruleFindings[anchor].range.endLine
                                       + (contextWindow \div 2) + 1)]

\* analyzer.ts 205-219: runLlmPass up to the awaited fetch
runLlmPassStart(call) ==
    LET anchor == AnchorIndex(call.ruleFindings)
    IN  IF anchor = 0
        THEN Resolve(call, 57, call.ruleFindings \o <<>>)
        ELSE [call EXCEPT
                !.pc = "awaitFetch",
                !.fetched = TRUE,
                !.startLine = Max(0, call.ruleFindings[anchor].range.startLine
                                       - (contextWindow \div 2)),
                !.endLine = MinOf(Len(call.text),
                                  call.ruleFindings[anchor].range.endLine
                                       + (contextWindow \div 2))]

\* mutant of analyzePythonAfterKey: `key === undefined` in place of `!key`, so the empty
\* string counts as a credential
analyzePythonAfterKeyUndefinedOnly(call, outcome) ==
    IF outcome.settled = "rejected"
    THEN [call EXCEPT !.pc = "rejected"]
    ELSE IF outcome.value = None
    THEN Resolve([call EXCEPT !.key = outcome.value], 53, call.ruleFindings)
    ELSE runLlmPassStart([call EXCEPT !.key = outcome.value])

\* analyzer.ts 51-56: analyzePython resumed when the credential lookup settles
analyzePythonAfterKey(call, outcome) ==
    IF outcome.settled = "rejected"
    THEN [call EXCEPT !.pc = "rejected"]
    ELSE IF ~Truthy(outcome.value)
    THEN Resolve([call EXCEPT !.key = outcome.value], 53, call.ruleFindings)
    ELSE runLlmPassStart([call EXCEPT !.key = outcome.value])

\* mutant of analyzePythonReturn: the augmented findings are put first
analyzePythonReturnLlmFirst(call, llmFindings) ==
    Resolve([call EXCEPT !.llmFindings = llmFindings], 57, llmFindings \o call.ruleFindings)

\* analyzer.ts 56-57: return [...ruleFindings, ...llmFindings]
analyzePythonReturn(call, llmFindings) ==
    Resolve([call EXCEPT !.llmFindings = llmFindings], 57, call.ruleFindings \o llmFindings)

\* analyzer.ts 219-250: runLlmPass resumed when the fetch settles
runLlmPassAfterFetch(call, outcome) ==
    IF outcome.settled = "rejected"
    THEN analyzePythonReturn(call, <<>>)
    ELSE [call EXCEPT !.pc = "awaitJson", !.status = outcome.status]

\* analyzer.ts 250-283: runLlmPass resumed when response.json() settles
runLlmPassAfterJson(call, body) ==
    analyzePythonReturn([call EXCEPT !.body = body],
                        DecodeBody(body, call.text, call.startLine, call.endLine))

(***************************************************************************)
(* diagnostics.ts: the conversion of findings to diagnostics.              *)
(***************************************************************************)
\* diagnostics.ts 51-63
mapSeverity(severity) ==
    CASE severity = "error" -> "Error"
      [] severity = "warning" -> "Warning"
      [] severity = "info" -> "Information"
      [] OTHER -> "Hint"

\* diagnostics.ts 65-70
toRange(finding) ==
    <<<<finding.range.startLine, finding.range.startChar>>,
      <<finding.range.endLine, finding.range.endChar>>>>

\* diagnostics.ts 72-75
annotateMessage(finding, reason) ==
    <<"[", finding.ruleId, "] ">> \o finding.message
    \o (IF finding.needsContext THEN <<" (review context)">> ELSE <<>>)
    \o <<" [", reason, "]">>

\* diagnostics.ts 29-38
ToDiagnostics(result, reason) ==
    [k \in 1..Len(result) |->
        [range |-> toRange(result[k]),
         message |-> annotateMessage(result[k], reason),
         severity |-> mapSeverity(result[k].severity),
         source |-> "codespeed",
         code |-> result[k].ruleId]]

(***************************************************************************)
(* Initial states.                                                         *)
(***************************************************************************)
ScanInit ==
    /\ lines = <<>>
    /\ lineNumber = 0
    /\ loopIndents = ScanStart.loopIndents
    /\ collectionLiteralKindByVar = ScanStart.kindByVar
    /\ findings = ScanStart.findings

\* extension.ts 14-15 as loaded, before activate(): nothing is handled, no document
\* is open
ExtensionInit ==
    /\ handledPythonUris = <<>>
    /\ initialScanSuppression = {}
    /\ timers = {}
    /\ activated = FALSE
    /\ textDocuments = {}
    /\ docText = [u \in DocUris |-> TextClean]
    /\ pendingOpen = {}
    /\ events = <<>>
    /\ debugLog = <<>>

\* the modules as loaded: CODESPEED_ENABLE_LLM is either 'true' or anything else
Init ==
    /\ calls = <<>>
    /\ ScanInit
    /\ ExtensionInit
    /\ DEFAULT_ENABLE_LLM \in BOOLEAN
    /\ apiKeyProvider = None
    /\ llmEnabled = None
    /\ configured = <<>>
    /\ initialized = FALSE
    /\ collection = None

(***************************************************************************)
(* Actions of the analyzer and of the diagnostics publisher.               *)
(***************************************************************************)
\* a variant with || in place of ?? for the flag: an explicit false is taken as omitted
configureAnalyzerOr(config) ==
    /\ apiKeyProvider' = IF config.getApiKey # None THEN config.getApiKey ELSE apiKeyProvider
    /\ llmEnabled' = IF config.enableLLM # None /\ config.enableLLM[1]
                      THEN config.enableLLM
                      ELSE llmEnabled
    /\ UNCHANGED DEFAULT_ENABLE_LLM

\* analyzer.ts 34-37
configureAnalyzer(config) ==
    /\ apiKeyProvider' = IF config.getApiKey # None THEN config.getApiKey ELSE apiKeyProvider
    /\ llmEnabled' = IF config.enableLLM # None THEN config.enableLLM ELSE llmEnabled
    /\ UNCHANGED DEFAULT_ENABLE_LLM

\* a caller of the analyzer module reconfigures it
Configure ==
    \E config \in Configs :
        /\ configureAnalyzer(config)
        /\ UNCHANGED <<scanVars, extensionVars, calls, diagnosticsVars, configured>>

\* diagnostics.ts 9-21
initDiagnostics(options) ==
    /\ ~initialized
    /\ collection' = Some([u \in Uris |-> <<>>])
    /\ configureAnalyzer(options)
    /\ initialized' = TRUE

InitDiagnostics ==
    \E options \in Configs :
        /\ initDiagnostics(options)
        /\ UNCHANGED <<scanVars, extensionVars, calls, configured>>

\* a direct call analyzePython(uri, text), run to its first suspension
analyzePython(uri, text) ==
    /\ calls' = Append(calls, analyzePythonStart(NewCall("direct", uri, "", text)))
    /\ UNCHANGED <<scanVars, extensionVars, analyzerVars, diagnosticsVars>>

AnalyzePython ==
    /\ Len(calls) < MaxCalls
    /\ \E uri \in Uris, text \in SampleTexts : analyzePython(uri, text)

\* diagnostics.ts 23-28: analyzeAndPublish(uri, text, reason) up to `await analyzePython(...)`
analyzeAndPublish(uri, text, reason) ==
    /\ collection # None
    /\ calls' = Append(calls, analyzePythonStart(NewCall("publish", uri, reason, text)))
    /\ UNCHANGED <<scanVars, extensionVars, analyzerVars, diagnosticsVars>>

AnalyzeAndPublish ==
    /\ Len(calls) < MaxCalls
    /\ \E uri \in Uris, text \in SampleTexts, reason \in Reasons :
           analyzeAndPublish(uri, text, reason)

\* the awaited credential lookup of invocation i settles (analyzer.ts 51); without a
\* provider the awaited value is undefined
CredentialSettles(i, outcome) ==
    /\ calls[i].pc = "awaitKey"
    /\ calls[i].provider = None => outcome = [settled |-> "fulfilled", value |-> None]
    /\ calls' = [calls EXCEPT ![i] = analyzePythonAfterKey(calls[i], outcome)]
    /\ UNCHANGED <<scanVars, extensionVars, analyzerVars, diagnosticsVars>>

CredentialLookup ==
    \E i \in 1..Len(calls), outcome \in KeyOutcomes : CredentialSettles(i, outcome)

\* the awaited fetch of invocation i settles (analyzer.ts 219)
FetchSettles(i, outcome) ==
    /\ calls[i].pc = "awaitFetch"
    /\ calls' = [calls EXCEPT ![i] = runLlmPassAfterFetch(calls[i], outcome)]
    /\ UNCHANGED <<scanVars, extensionVars, analyzerVars, diagnosticsVars>>

Fetch ==
    \E i \in 1..Len(calls), outcome \in FetchOutcomes : FetchSettles(i, outcome)

\* the awaited response.json() of invocation i settles (analyzer.ts 250)
JsonSettles(i, body) ==
    /\ calls[i].pc = "awaitJson"
    /\ calls' = [calls EXCEPT ![i] = runLlmPassAfterJson(calls[i], body)]
    /\ UNCHANGED <<scanVars, extensionVars, analyzerVars, diagnosticsVars>>

ResponseJson ==
    \E i \in 1..Len(calls), body \in ResponseBodies : JsonSettles(i, body)

\* a variant of Publish with per-document sequencing: a result is dropped when a
\* later invocation for the same document has already published
PublishUnlessSuperseded(i) ==
    /\ calls[i].caller = "publish"
    /\ calls[i].pc = "resolved"
    /\ LET diagnostics == ToDiagnostics(calls[i].result, calls[i].reason)
           superseded == \E j \in (i + 1)..Len(calls) :
                             /\ calls[j].uri = calls[i].uri
                             /\ calls[j].pc = "published"
       IN  /\ calls' = [calls EXCEPT ![i].pc = "published", ![i].diagnostics = diagnostics]
           /\ collection' = IF superseded
                            THEN collection
                            ELSE Some([collection[1] EXCEPT ![calls[i].uri] = diagnostics])
    /\ UNCHANGED <<scanVars, extensionVars, analyzerVars, initialized>>

\* diagnostics.ts 28-40: analyzeAndPublish resumed with the findings of invocation i
Publish(i) ==
    /\ calls[i].caller = "publish"
    /\ calls[i].pc = "resolved"
    /\ LET diagnostics == ToDiagnostics(calls[i].result, calls[i].reason)
       IN  /\ calls' = [calls EXCEPT ![i].pc = "published", ![i].diagnostics = diagnostics]
           /\ collection' = Some([collection[1] EXCEPT ![calls[i].uri] = diagnostics])
    /\ UNCHANGED <<scanVars, extensionVars, analyzerVars, initialized>>

PublishFindings ==
    \E i \in 1..Len(calls) : Publish(i)

\* diagnostics.ts 43-49
clearDiagnostics(uri) ==
    /\ collection # None
    /\ collection' = Some([collection[1] EXCEPT ![uri] = <<>>])
    /\ UNCHANGED <<scanVars, extensionVars, analyzerVars, calls, initialized>>

ClearDiagnostics ==
    \E uri \in Uris : clearDiagnostics(uri)

Next ==
    \/ Configure
    \/ InitDiagnostics
    \/ AnalyzePython
    \/ AnalyzeAndPublish
    \/ CredentialLookup
    \/ Fetch
    \/ ResponseJson
    \/ PublishFindings
    \/ ClearDiagnostics

Spec ==
    Init /\ [][Next]_vars

(***************************************************************************)
(* Repeated and overlapping invocations: as Spec, with one more            *)
(* invocation, started while the earlier ones are in flight or after them. *)
(***************************************************************************)
AnalyzePythonAgain ==
    /\ Len(calls) = MaxCalls
    /\ \E uri \in Uris, text \in SampleTexts : analyzePython(uri, text)

AnalyzeAndPublishAgain ==
    /\ Len(calls) = MaxCalls
    /\ \E uri \in Uris, text \in SampleTexts, reason \in Reasons :
           analyzeAndPublish(uri, text, reason)

NextPairs ==
    \/ Next
    \/ AnalyzePythonAgain
    \/ AnalyzeAndPublishAgain

SpecPairs ==
    Init /\ [][NextPairs]_vars

(***************************************************************************)
(* The rule scan on its own: runStaticRules run line by line over every    *)
(* text of at most MaxLines lines of RuleLines.  The loop reads line       *)
(* lineNumber only in iteration lineNumber, so the text is chosen one line *)
(* at a time, as the loop reaches it.                                      *)
(***************************************************************************)
InitRules ==
    /\ ScanInit
    /\ ExtensionInit
    /\ DEFAULT_ENABLE_LLM = FALSE
    /\ apiKeyProvider = None
    /\ llmEnabled = None
    /\ configured = <<>>
    /\ calls = <<>>
    /\ initialized = FALSE
    /\ collection = None

\* one iteration of the for loop (analyzer.ts 68-189), on line `line`
ScanNextLine(line) ==
    /\ LET st == ScanLine([loopIndents |-> loopIndents,
                           kindByVar |-> collectionLiteralKindByVar,
                           findings |-> findings],
                          lineNumber, line)
       IN  /\ loopIndents' = st.loopIndents
           /\ collectionLiteralKindByVar' = st.kindByVar
           /\ findings' = st.findings
    /\ lines' = Append(lines, line)
    /\ lineNumber' = lineNumber + 1
    /\ UNCHANGED <<analyzerVars, calls, diagnosticsVars, extensionVars>>

ScanStep ==
    /\ Len(lines) < MaxLines
    /\ \E line \in RuleLines : ScanNextLine(line)

NextRules ==
    ScanStep

SpecRules ==
    InitRules /\ [][NextRules]_vars

\* the settlements explored where the analysis outcome is not the subject: the stored
\* credential is absent or present, and the service answers with one suggestion
StoredKeyOutcomes ==
    {[settled |-> "fulfilled", value |-> None], [settled |-> "fulfilled", value |-> Some("sk-1")]}

ServiceOutcomes ==
    {[settled |-> "fulfilled", status |-> 200]}

ServiceBodies ==
    {Body("array", <<ItemSuggestion>>)}

StoredKeyLookup ==
    \E i \in 1..Len(calls), outcome \in StoredKeyOutcomes : CredentialSettles(i, outcome)

ServiceFetch ==
    \E i \in 1..Len(calls), outcome \in ServiceOutcomes : FetchSettles(i, outcome)

ServiceJson ==
    \E i \in 1..Len(calls), body \in ServiceBodies : JsonSettles(i, body)

(***************************************************************************)
(* A sequence of configureAnalyzer calls, each recorded in `configured`,   *)
(* followed by one analyzePython call on a document that needs context.    *)
(***************************************************************************)
\* the { getApiKey?, enableLLM? } arguments, over two distinct providers
ConfigArgs ==
    [getApiKey : {None, Some("secretStorage"), Some("environment")},
     enableLLM : {None, Some(TRUE), Some(FALSE)}]

\* the longest sequence of configureAnalyzer calls explored
MaxConfigures == 3

ConfigureRecorded ==
    /\ calls = <<>>
    /\ Len(configured) < MaxConfigures
    /\ \E config \in ConfigArgs :
          /\ configureAnalyzer(config)
          /\ configured' = Append(configured, config)
    /\ UNCHANGED <<scanVars, extensionVars, calls, diagnosticsVars>>

AnalyzeConfigured ==
    /\ calls = <<>>
    /\ \E uri \in Uris, text \in {TextLiteral, TextMixed} : analyzePython(uri, text)

NextConfigures ==
    \/ ConfigureRecorded
    \/ AnalyzeConfigured

SpecConfigures ==
    Init /\ [][NextConfigures]_vars

(***************************************************************************)
(* The Augmentor's decoding of a reply: analyzePython is called once on a  *)
(* document that needs context, and the service answers with a JSON array  *)
(* of one item whose fields are each absent, empty or any string.          *)
(***************************************************************************)
\* the values a reply item may carry in each field; <<>> is an omitted field
ReplyRuleIds ==
    {None, Some(""), Some("llm.cache")}

ReplyMessages ==
    {None, Some(""), Some("cache the lookup")}

ReplySeverities ==
    {None, Some(""), Some("error"), Some("ERROR"), Some("warning"), Some("Warning"),
     Some("warn"), Some("WARN"), Some("hint"), Some("Hint"), Some("info"),
     Some("critical")}

ReplyConfidences ==
    {None, Some("low"), Some("medium"), Some("high"), Some("Medium")}

ReplyNotes ==
    {None, Some("n1")}

ReplyItems ==
    [ruleId : ReplyRuleIds, message : ReplyMessages, severity : ReplySeverities,
     confidence : ReplyConfidences, notes : ReplyNotes]

ReplyBodies ==
    {Body("array", <<item>>) : item \in ReplyItems}

AnalyzeForReply ==
    /\ Len(calls) < 1
    /\ \E uri \in Uris, text \in {TextLiteral, TextMixed} : analyzePython(uri, text)

ReplyJson ==
    \E i \in 1..Len(calls), body \in ReplyBodies : JsonSettles(i, body)

NextReplies ==
    \/ Configure
    \/ AnalyzeForReply
    \/ StoredKeyLookup
    \/ ServiceFetch
    \/ ReplyJson

SpecReplies ==
    Init /\ [][NextReplies]_vars

(***************************************************************************)
(* The Augmentor's context window: analyzePython is called once on a       *)
(* document of WindowTexts, with augmentation configured on or off.        *)
(***************************************************************************)
AnalyzeWindowText ==
    /\ Len(calls) < 1
    /\ \E uri \in Uris, text \in WindowTexts : analyzePython(uri, text)

NextWindow ==
    \/ Configure
    \/ AnalyzeWindowText
    \/ StoredKeyLookup
    \/ ServiceFetch
    \/ ServiceJson

SpecWindow ==
    Init /\ [][NextWindow]_vars

(***************************************************************************)
(* The scope stack on its own: the same loop, over every text of at most   *)
(* MaxScopeLines lines of ScopeLines.                                      *)
(***************************************************************************)
ScopeStep ==
    /\ Len(lines) < MaxScopeLines
    /\ \E line \in ScopeLines : ScanNextLine(line)

NextScope ==
    ScopeStep

SpecScope ==
    InitRules /\ [][NextScope]_vars

(***************************************************************************)
(* The same loop over the lines the finding ranges are explored on.        *)
(***************************************************************************)
RangeStep ==
    /\ Len(lines) < MaxRangeLines
    /\ \E line \in RangeLines : ScanNextLine(line)

NextRanges ==
    RangeStep

SpecRanges ==
    InitRules /\ [][NextRanges]_vars

(***************************************************************************)
(* The same loop over the lines the binding map is explored on.            *)
(***************************************************************************)
BindingStep ==
    /\ Len(lines) < MaxBindingLines
    /\ \E line \in BindingLines : ScanNextLine(line)

NextBindings ==
    BindingStep

SpecBindings ==
    InitRules /\ [][NextBindings]_vars

(***************************************************************************)
(* extension.ts: the editor host delivers document events to the handlers  *)
(* activate() registers.  A handler runs to its first await in one step;   *)
(* the analysis it starts continues as an invocation of `calls`.           *)
(***************************************************************************)
\* the events delivered to the extension in one behaviour
MaxEvents == 2

\* the variables the handlers of extension.ts write, as one record
ExtensionState ==
    [handled |-> handledPythonUris, suppression |-> initialScanSuppression,
     timers |-> timers, events |-> events, log |-> debugLog, calls |-> calls]

\* a vscode.TextDocument as the handlers read it
Document(uri, text) ==
    [uri |-> uri, languageId |-> LanguageId(uri), text |-> text]

\* extension.ts 115-121 with diagnostics.ts 23-28: handlePythonDocument up to the await
\* inside analyzeAndPublish; `hasCollection`, `enabled` and `provider` are the
\* diagnostics collection and the analyzer configuration when it runs
handlePythonDocument(st, document, reason, hasCollection, enabled, provider) ==
    [st EXCEPT
        !.handled = Append(@, document.uri),
        !.log = Append(@, [uri |-> document.uri, reason |-> reason]),
        !.calls = IF hasCollection
                  THEN Append(@, analyzePythonUnder(
                                    NewCall("publish", document.uri, reason, document.text),
                                    enabled, provider))
                  ELSE @]

\* a variant of handleDocumentEvent that tests the language only on open events
handleDocumentEventFilterOnOpen(st, document, reason, distinctOpen, hasCollection, enabled, provider) ==
    LET seen == [st EXCEPT !.events = Append(@, [uri |-> document.uri,
                                                 languageId |-> document.languageId,
                                                 reason |-> reason,
                                                 text |-> document.text,
                                                 distinctOpen |-> distinctOpen])]
    IN  IF reason = "onDidOpenTextDocument" /\ document.languageId # PYTHON_LANGUAGE_ID
        THEN seen
        ELSE IF reason = "onDidOpenTextDocument" /\ document.uri \in st.suppression
        THEN [seen EXCEPT !.suppression = @ \ {document.uri}]
        ELSE handlePythonDocument(seen, document, reason, hasCollection, enabled, provider)

\* a variant of handleDocumentEvent that drops an event while an analysis of the same
\* document is in flight
handleDocumentEventCoalescing(st, document, reason, distinctOpen, hasCollection, enabled, provider) ==
    LET seen == [st EXCEPT !.events = Append(@, [uri |-> document.uri,
                                                 languageId |-> document.languageId,
                                                 reason |-> reason,
                                                 text |-> document.text,
                                                 distinctOpen |-> distinctOpen])]
        inFlight == \E i \in 1..Len(st.calls) :
                        /\ st.calls[i].uri = document.uri
                        /\ st.calls[i].pc \in {"awaitKey", "awaitFetch", "awaitJson"}
    IN  IF document.languageId # PYTHON_LANGUAGE_ID \/ inFlight
        THEN seen
        ELSE IF reason = "onDidOpenTextDocument" /\ document.uri \in st.suppression
        THEN [seen EXCEPT !.suppression = @ \ {document.uri}]
        ELSE handlePythonDocument(seen, document, reason, hasCollection, enabled, provider)

\* extension.ts 69-84: handleDocumentEvent; `distinctOpen` records, for the event log
\* only, whether the call stands for a new opening of the document
handleDocumentEvent(st, document, reason, distinctOpen, hasCollection, enabled, provider) ==
    LET seen == [st EXCEPT !.events = Append(@, [uri |-> document.uri,
                                                 languageId |-> document.languageId,
                                                 reason |-> reason,
                                                 text |-> document.text,
                                                 distinctOpen |-> distinctOpen])]
    IN  IF document.languageId # PYTHON_LANGUAGE_ID
        THEN seen
        ELSE IF reason = "onDidOpenTextDocument" /\ document.uri \in st.suppression
        THEN [seen EXCEPT !.suppression = @ \ {document.uri}]
        ELSE handlePythonDocument(seen, document, reason, hasCollection, enabled, provider)

\* the handlers' writes become the next state
Becomes(st) ==
    /\ handledPythonUris' = st.handled
    /\ initialScanSuppression' = st.suppression
    /\ timers' = st.timers
    /\ events' = st.events
    /\ debugLog' = st.log
    /\ calls' = st.calls

\* the host delivers one event to a registered listener (extension.ts 90-92)
Deliver(uri, text, reason, distinctOpen) ==
    /\ activated
    /\ Len(events) < MaxEvents
    /\ Becomes(handleDocumentEvent(ExtensionState, Document(uri, text), reason,
                                   distinctOpen, collection # None,
                                   EffectiveEnableLLM, apiKeyProvider))

\* the order of vscode.workspace.textDocuments
DocOrder ==
    <<"file:///w/a.py", "file:///w/notes.txt">>

RECURSIVE InitialScan(_, _, _, _)
\* extension.ts 98-107: the initial scan over the first k documents of DocOrder
InitialScan(st, k, enabled, provider) ==
    IF k = 0
    THEN st
    ELSE LET before == InitialScan(st, k - 1, enabled, provider)
             uri == DocOrder[k]
         IN  IF uri \notin textDocuments \/ LanguageId(uri) # PYTHON_LANGUAGE_ID
             THEN before
             ELSE handleDocumentEvent(
                      [before EXCEPT !.suppression = @ \cup {uri}, !.timers = @ \cup {uri}],
                      Document(uri, docText[uri]), "initial-scan", TRUE,
                      TRUE, enabled, provider)

\* extension.ts 36-108: activate(), called once by the host
Activate ==
    /\ ~activated
    /\ activated' = TRUE
    /\ IF initialized
       THEN UNCHANGED <<analyzerVars, diagnosticsVars>>
       ELSE /\ initDiagnostics([getApiKey |-> Some("secretStorage"),
                                enableLLM |-> Some(DEFAULT_ENABLE_LLM)])
            /\ UNCHANGED configured
    /\ Becomes(InitialScan(ExtensionState, Len(DocOrder),
                           IF initialized THEN EffectiveEnableLLM ELSE DEFAULT_ENABLE_LLM,
                           IF initialized THEN apiKeyProvider ELSE Some("secretStorage")))
    /\ UNCHANGED <<scanVars, textDocuments, docText, pendingOpen>>

\* a document is opened in the editor; once the extension is active its listener is told
OpenDocument ==
    \E uri \in DocUris \ textDocuments :
        /\ textDocuments' = textDocuments \cup {uri}
        /\ IF activated
           THEN /\ Deliver(uri, docText[uri], "onDidOpenTextDocument", TRUE)
                /\ UNCHANGED pendingOpen
           ELSE /\ pendingOpen' = pendingOpen \cup {uri}
                /\ UNCHANGED <<handledPythonUris, initialScanSuppression, timers, events,
                               debugLog, calls>>
        /\ UNCHANGED <<scanVars, analyzerVars, diagnosticsVars, activated, docText>>

\* the open notification of a document that was opened before activate() reaches the
\* listener after activate() has registered it
DeliverPendingOpen ==
    \E uri \in pendingOpen :
        /\ Deliver(uri, docText[uri], "onDidOpenTextDocument", FALSE)
        /\ pendingOpen' = pendingOpen \ {uri}
        /\ UNCHANGED <<scanVars, analyzerVars, diagnosticsVars, activated, textDocuments,
                       docText>>

\* a document is closed; the extension registers no listener for it
CloseDocument ==
    \E uri \in textDocuments :
        /\ textDocuments' = textDocuments \ {uri}
        /\ pendingOpen' = pendingOpen \ {uri}
        /\ UNCHANGED <<scanVars, analyzerVars, diagnosticsVars, calls, handledPythonUris,
                       initialScanSuppression, timers, activated, docText, events,
                       debugLog>>

\* an edit of an open document
ChangeDocument ==
    \E uri \in textDocuments :
        \E text \in (IF LanguageId(uri) = PYTHON_LANGUAGE_ID THEN EditTexts ELSE {TextClean}) :
            /\ docText' = [docText EXCEPT ![uri] = text]
            /\ IF activated
               THEN Deliver(uri, text, "onDidChangeTextDocument", FALSE)
               ELSE UNCHANGED <<handledPythonUris, initialScanSuppression, timers, events,
                                debugLog, calls>>
            /\ UNCHANGED <<scanVars, analyzerVars, diagnosticsVars, activated,
                           textDocuments, pendingOpen>>

\* an open document is saved
SaveDocument ==
    \E uri \in textDocuments :
        /\ Deliver(uri, docText[uri], "onDidSaveTextDocument", FALSE)
        /\ UNCHANGED <<scanVars, analyzerVars, diagnosticsVars, activated, textDocuments,
                       docText, pendingOpen>>

\* extension.ts 105: a suppression timer expires, INITIAL_SCAN_SUPPRESSION_TIMEOUT_MS
\* after activate()
SuppressionTimeout ==
    \E uri \in timers :
        /\ initialScanSuppression' = initialScanSuppression \ {uri}
        /\ timers' = timers \ {uri}
        /\ UNCHANGED <<scanVars, analyzerVars, diagnosticsVars, calls, handledPythonUris,
                       activated, textDocuments, docText, pendingOpen, events, debugLog>>

\* extension.ts 21-24
resetHandledPythonUris ==
    /\ activated
    /\ handledPythonUris # <<>> \/ initialScanSuppression # {}
    /\ handledPythonUris' = <<>>
    /\ initialScanSuppression' = {}
    /\ UNCHANGED <<scanVars, analyzerVars, diagnosticsVars, calls, timers, activated,
                   textDocuments, docText, pendingOpen, events, debugLog>>

NextExtension ==
    \/ Activate
    \/ OpenDocument
    \/ DeliverPendingOpen
    \/ CloseDocument
    \/ ChangeDocument
    \/ SaveDocument
    \/ SuppressionTimeout
    \/ resetHandledPythonUris
    \/ StoredKeyLookup
    \/ ServiceFetch
    \/ ServiceJson
    \/ PublishFindings

SpecExtension ==
    Init /\ [][NextExtension]_vars

(***************************************************************************)
(* Properties of analyzePython (checked under Spec unless said otherwise). *)
(***************************************************************************)
\* the list the rule scan produces, for each document analysed
RuleScan ==
    [text \in SampleTexts |-> runStaticRules(text)]

\* the invocation has returned to its caller
Returned(call) ==
    call.pc \in {"resolved", "published"}

\* enableLLM configured false, or unset with the environment default false
AugmentationDisabled ==
    \/ llmEnabled = Some(FALSE)
    \/ llmEnabled = None /\ DEFAULT_ENABLE_LLM = FALSE

\* C1: a call made while augmentation is disabled returns, without suspending, exactly
\* the list the rule scan produces for its text, and neither the credential provider
\* nor the network is used.
C1_DisabledReturnsRuleScan ==
    [][(Len(calls') = Len(calls) + 1 /\ AugmentationDisabled)
          => LET call == calls'[Len(calls')]
             IN  /\ call.pc = "resolved"
                 /\ call.result = RuleScan[call.text]
                 /\ call.provider = None
                 /\ ~call.fetched]_vars

\* C1 witness: a text with a finding that needs context was analysed with augmentation
\* disabled and returned at the gate
C1_Witness ==
    \E i \in 1..Len(calls) :
        /\ calls[i].exit = 48
        /\ NeedsLLM(calls[i].ruleFindings)
        /\ \E k \in 1..Len(calls[i].ruleFindings) : calls[i].ruleFindings[k].confidence = "high"

\* the invocation is past its credential lookup, which resolved to a falsy value
LookupCameBackEmpty(call) ==
    /\ call.pc \notin {"awaitKey", "rejected"}
    /\ call.exit \notin {44, 48}
    /\ ~Truthy(call.key)

\* C2: an invocation whose credential lookup resolved to undefined or "" (also when no
\* provider is configured) has returned exactly the rule-scan list and never issued a
\* request.
C2_NoCredentialReturnsRuleScan ==
    \A i \in 1..Len(calls) :
        LookupCameBackEmpty(calls[i])
            => /\ Returned(calls[i])
               /\ calls[i].result = RuleScan[calls[i].text]
               /\ ~calls[i].fetched
               /\ calls[i].llmFindings = <<>>

\* C2 witness: a provider was asked, answered the empty string, and the call returned
C2_Witness ==
    \E i \in 1..Len(calls) :
        /\ calls[i].provider # None
        /\ calls[i].key = Some("")
        /\ calls[i].exit = 53
        /\ calls[i].result # <<>>

\* C3 (as claimed): no analyzePython invocation ever rejects to its caller.
C3_NeverRejects ==
    \A i \in 1..Len(calls) : calls[i].pc # "rejected"

\* a stage of the round trip failed: network error, non-2xx status, or a body that does
\* not decode to a JSON array
RoundTripFailed(call) ==
    \/ call.exit = 57 /\ call.status = 0
    \/ call.status # 0 /\ call.status \notin 200..299
    \/ call.body.kind \in {"not-json", "no-content", "text", "object"}

\* C4 (as claimed): after any failed stage of the round trip the Augmentor's result is
\* empty and the analysis output is exactly the rule-scan output.
C4_FailureYieldsRuleScan ==
    \A i \in 1..Len(calls) :
        (Returned(calls[i]) /\ calls[i].fetched /\ RoundTripFailed(calls[i]))
            => /\ calls[i].llmFindings = <<>>
               /\ calls[i].result = RuleScan[calls[i].text]

\* no detector pattern matches the line, inside a loop or not
NoPatternLine(line) ==
    /\ ~AugAssignPattern(line)
    /\ ~ExplicitConcatPattern(line)
    /\ ~ReCompilePattern(line)
    /\ ~PopFrontPattern(line)
    /\ InVarMatch(line) = <<>>
    /\ ~InLiteralPattern(line)
    /\ ~ApplyRowwisePattern(line)
    /\ ~IterrowsPattern(line)

NoPatternText(text) ==
    \A n \in 1..Len(text) : NoPatternLine(text[n])

\* the documents analysed no line of which matches a detector pattern
CleanTexts ==
    {text \in SampleTexts : NoPatternText(text)}

\* C7: for a text no line of which matches a detector pattern, the rule scan and the
\* analysis return the empty list at the first return statement, no credential provider
\* and no network is consulted, and what analyzeAndPublish publishes is empty (the
\* collection holds the empty list for the document until another invocation publishes).
C7_CleanTextYieldsNothing ==
    \A i \in 1..Len(calls) :
        calls[i].text \in CleanTexts
            => /\ RuleScan[calls[i].text] = <<>>
               /\ Returned(calls[i])
               /\ calls[i].exit = 44
               /\ calls[i].result = <<>>
               /\ calls[i].provider = None
               /\ ~calls[i].fetched
               /\ calls[i].diagnostics = <<>>
               /\ calls[i].pc = "published"
                     => \/ collection[1][calls[i].uri] = <<>>
                        \/ \E j \in 1..Len(calls) :
                              /\ j # i
                              /\ calls[j].pc = "published"
                              /\ collection[1][calls[i].uri] = calls[j].diagnostics

\* C7 witness: the clean scenario of the tests was analysed with augmentation enabled
\* and a provider configured, and its (empty) diagnostics were published
C7_Witness ==
    \E i \in 1..Len(calls) :
        /\ calls[i].text = TextClean
        /\ calls[i].pc = "published"
        /\ EffectiveEnableLLM
        /\ apiKeyProvider # None

\* C8 (as claimed): any two returned invocations on the same text returned the same list.
C8_SameTextSameResult ==
    \A i, j \in 1..Len(calls) :
        (Returned(calls[i]) /\ Returned(calls[j]) /\ calls[i].text = calls[j].text)
            => calls[i].result = calls[j].result

\* C8 (amended): two invocations on the same text have the same rule-scan findings, those
\* findings open both returned lists, and the returned lists are equal whenever neither
\* invocation returned from the augmented path.  Checked under SpecPairs.
C8_SameTextSameRuleScan ==
    \A i, j \in 1..Len(calls) :
        calls[i].text = calls[j].text
            => /\ calls[i].ruleFindings = calls[j].ruleFindings
               /\ (Returned(calls[i]) /\ Returned(calls[j]))
                     => /\ SubSeq(calls[i].result, 1, Len(calls[i].ruleFindings))
                           = SubSeq(calls[j].result, 1, Len(calls[j].ruleFindings))
                        /\ (calls[i].exit # 57 /\ calls[j].exit # 57)
                              => calls[i].result = calls[j].result

\* C8 witness: two returned invocations on the same text, the first augmented with
\* findings of the service, the second not
C8_Witness ==
    /\ Len(calls) = 2
    /\ calls[1].text = calls[2].text
    /\ Returned(calls[1]) /\ Returned(calls[2])
    /\ calls[1].llmFindings # <<>>
    /\ calls[2].exit = 53

\* C9: whatever the outcome, the returned list is the rule-scan list of the text,
\* unchanged and in order, followed by the Augmentor's findings.
C9_RuleFindingsArePrefix ==
    \A i \in 1..Len(calls) :
        Returned(calls[i])
            => LET rule == RuleScan[calls[i].text]
                   result == calls[i].result
               IN  /\ Len(result) >= Len(rule)
                   /\ SubSeq(result, 1, Len(rule)) = rule
                   /\ SubSeq(result, Len(rule) + 1, Len(result)) = calls[i].llmFindings
                   /\ \A k \in (Len(rule) + 1)..Len(result) : result[k] \notin {rule[n] : n \in 1..Len(rule)}

\* C9 witness: a call with rule findings returned them followed by augmented findings
C9_Witness ==
    \E i \in 1..Len(calls) :
        /\ Returned(calls[i])
        /\ calls[i].exit = 57
        /\ calls[i].llmFindings # <<>>
        /\ Len(calls[i].ruleFindings) > 1

(***************************************************************************)
(* Properties of the rule scan, checked under SpecRules: in every state    *)
(* `lines` is a text and `findings` is what runStaticRules has emitted for *)
(* it.                                                                     *)
(***************************************************************************)
\* the scan state the loop body of line n (1-based) ends in
After(n) ==
    ScanPrefix(lines, n)

\* the inside-loop flag the scan computes on line n
InsideLoopAt(n) ==
    InsideLoop(After(n).loopIndents, IndentOf(lines[n]))

\* the findings emitted for line n
FindingsOn(n) ==
    {k \in 1..Len(findings) : findings[k].range.startLine = n - 1}

\* empty or whitespace only
IsBlank(line) ==
    IndentOf(line) = Len(line)

\* line n lies in the body of a for/while loop as Python delimits it: a header above it
\* whose block has not been closed by a non-blank line at the header's indentation or less
InLoopBody(n) ==
    /\ ~IsBlank(lines[n])
    /\ \E h \in 1..(n - 1) :
          /\ IsLoopHeader(lines[h])
          /\ \A k \in (h + 1)..n :
                IsBlank(lines[k]) \/ IndentOf(lines[k]) > IndentOf(lines[h])

\* exactly one loop.string-concat finding on line n, and it is high, needs no context
\* and spans that line only
OneConcatFindingOn(n) ==
    LET hits == {k \in FindingsOn(n) : findings[k].ruleId = "loop.string-concat"}
    IN  /\ Cardinality(hits) = 1
        /\ \A k \in hits :
              /\ findings[k].confidence = "high"
              /\ findings[k].needsContext = FALSE
              /\ findings[k].range.endLine = n - 1

\* C5 (as claimed): every line in a loop body that augments a string with a string
\* literal or str(...) gets exactly one loop.string-concat finding (high, no context,
\* on that line), blank lines in the body notwithstanding; and the hot-loop scenario
\* yields exactly one finding.
C5_ConcatInLoopBodyFound ==
    /\ \A n \in 1..Len(lines) :
          (InLoopBody(n) /\ AugAssignPattern(lines[n])) => OneConcatFindingOn(n)
    /\ Len(runStaticRules(TextHotLoop)) = 1

\* the names line n tests membership against, at any place of the line
MembershipNames(line) ==
    {InVarNameAt(line, p) : p \in InVarStarts(line)}

\* a ds.list-membership finding on line n with the given confidence and needsContext
MembershipFindingOn(n, confidence, needsContext) ==
    \E k \in FindingsOn(n) :
        /\ findings[k].ruleId = "ds.list-membership"
        /\ findings[k].confidence = confidence
        /\ findings[k].needsContext = needsContext

\* C6 (as claimed): inside a loop, a line with a membership test against a bound name,
\* wherever on the line, gets a high-confidence ds.list-membership finding; a line with
\* a membership test against an inline literal gets a medium one that needs context.
C6_MembershipFound ==
    \A n \in 1..Len(lines) :
        InsideLoopAt(n)
            => /\ (MembershipNames(lines[n]) \cap DOMAIN After(n).kindByVar # {})
                     => MembershipFindingOn(n, "high", FALSE)
               /\ InLiteralPattern(lines[n])
                     => MembershipFindingOn(n, "medium", TRUE)

\* the detectors in declaration order
Detectors == 1..7

\* the place of a finding's detector in the declaration order
DetectorOf(finding) ==
    CASE finding.ruleId = "loop.string-concat" -> 1
      [] finding.ruleId = "loop.re-compile" -> 2
      [] finding.ruleId = "loop.pop-front" -> 3
      [] finding.ruleId = "ds.list-membership" /\ finding.confidence = "high" -> 4
      [] finding.ruleId = "ds.list-membership" -> 5
      [] finding.ruleId = "pandas.apply-rowwise" -> 6
      [] finding.ruleId = "pandas.iterrows" -> 7

\* detector d fires on a line, given the inside-loop flag and the bound names there
Fires(d, line, insideLoop, bound) ==
    CASE d = 1 -> insideLoop /\ (AugAssignPattern(line) \/ ExplicitConcatPattern(line))
      [] d = 2 -> insideLoop /\ ReCompilePattern(line)
      [] d = 3 -> insideLoop /\ PopFrontPattern(line)
      [] d = 4 -> insideLoop /\ InVarMatch(line) # <<>> /\ InVarMatch(line)[1] \in bound
      [] d = 5 -> insideLoop /\ InLiteralPattern(line)
      [] d = 6 -> ApplyRowwisePattern(line)
      [] d = 7 -> IterrowsPattern(line)

RECURSIVE ScanTrace(_, _)
\* the scan states after each of the first n lines, in order
ScanTrace(textLines, n) ==
    IF n = 0
    THEN <<>>
    ELSE LET before == ScanTrace(textLines, n - 1)
             st == IF n = 1 THEN ScanStart ELSE before[n - 1]
         IN  Append(before, ScanLine(st, n - 1, textLines[n]))

\* the detectors that fire on line n, the scan being in state `after` once past it
FiringOn(n, after) ==
    LET insideLoop == InsideLoop(after.loopIndents, IndentOf(lines[n]))
        bound == DOMAIN after.kindByVar
    IN  {d \in Detectors : Fires(d, lines[n], insideLoop, bound)}

\* <<line, detector>> of the k-th finding
Place(k) ==
    <<findings[k].range.startLine + 1, DetectorOf(findings[k])>>

\* C10: the output lists one finding for each (line, detector) that fires and nothing
\* else, ordered by line and within a line by detector declaration order; two findings
\* that share line and ruleId are both kept.
C10_OrderedOnePerFiringDetector ==
    LET trace == ScanTrace(lines, Len(lines))
        firing == UNION {{<<n, d>> : d \in FiringOn(n, trace[n])} : n \in 1..Len(lines)}
    IN  /\ Len(findings) = Cardinality(firing)
        /\ \A k \in 1..Len(findings) : Place(k) \in firing
        /\ \A k \in 1..(Len(findings) - 1) :
              \/ Place(k)[1] < Place(k + 1)[1]
              \/ Place(k)[1] = Place(k + 1)[1] /\ Place(k)[2] < Place(k + 1)[2]

\* C10 witness: a line with both membership findings (same ruleId, same line) after a
\* finding of an earlier line
C10_Witness ==
    \E k \in 2..(Len(findings) - 1) :
        /\ Place(k)[2] = 4
        /\ Place(k + 1) = <<Place(k)[1], 5>>
        /\ Place(k - 1)[1] < Place(k)[1]

(***************************************************************************)
(* The order of the steps of one invocation (checked under Spec).          *)
(***************************************************************************)
\* C18: within an invocation the credential lookup is awaited at most once, and only
\* when some rule finding has confidence low or needsContext and augmentation was
\* enabled at the call; the request is issued at most once, and only once the lookup
\* has resolved to a non-empty value; the request is never out while the lookup is
\* pending.
C18_StepsInSequence ==
    [][\A i \in 1..Len(calls') :
          LET after == calls'[i]
              started == i > Len(calls)
          IN  /\ after.pc = "awaitKey"
                   => /\ ~after.fetched /\ after.key = None
                      /\ IF started
                         THEN /\ EffectiveEnableLLM
                              /\ \E k \in 1..Len(after.ruleFindings) :
                                     \/ after.ruleFindings[k].confidence = "low"
                                     \/ after.ruleFindings[k].needsContext
                         ELSE calls[i] = after
              /\ after.pc # "awaitKey" /\ ~started /\ calls[i].pc # "awaitKey"
                   => after.key = calls[i].key
              /\ after.fetched
                   => /\ ~started
                      /\ after.key # None /\ after.key # Some("")
                      /\ calls[i].fetched \/ calls[i].pc = "awaitKey"
              /\ after.pc = "awaitFetch"
                   => ~started /\ after.fetched /\ calls[i].pc \in {"awaitKey", "awaitFetch"}
              /\ after.pc = "awaitJson"
                   => ~started /\ after.fetched /\ calls[i].pc \in {"awaitFetch", "awaitJson"}
              /\ (~started /\ calls[i].pc \in {"awaitFetch", "awaitJson"})
                   => after.pc # "awaitKey"]_vars

\* C18 witness: an invocation went through both suspensions and returned the service's
\* findings after the rule findings
C18_Witness ==
    \E i \in 1..Len(calls) :
        /\ calls[i].pc = "resolved" /\ calls[i].exit = 57
        /\ calls[i].key = Some("sk-1")
        /\ calls[i].fetched
        /\ calls[i].llmFindings # <<>>

(***************************************************************************)
(* Properties of the Augmentor's context window (checked under SpecWindow).*)
(***************************************************************************)
\* the Augmentor ran in this invocation: the credential lookup gave a non-empty value
AugmentorRan(call) ==
    call.key # None /\ call.key # Some("")

\* the rule findings of an invocation that have needsContext or confidence low
QualifyingFindings(call) ==
    {k \in 1..Len(call.ruleFindings) :
        call.ruleFindings[k].needsContext \/ call.ruleFindings[k].confidence = "low"}

\* the line (0-based) of the first of them in output order
FirstQualifyingLine(call) ==
    LET first == CHOOSE k \in QualifyingFindings(call) :
                     \A h \in QualifyingFindings(call) : k <= h
    IN  call.ruleFindings[first].range.startLine

\* C19: whenever the Augmentor runs, a qualifying finding exists, one request is issued,
\* and the window is the one around the first qualifying finding in output order,
\* whatever qualifying findings follow it.
C19_FirstQualifyingIsAnchor ==
    \A i \in 1..Len(calls) :
        AugmentorRan(calls[i])
            => /\ QualifyingFindings(calls[i]) # {}
               /\ calls[i].fetched
               /\ calls[i].startLine = Max(0, FirstQualifyingLine(calls[i]) - 6)
               /\ calls[i].endLine = MinOf(Len(calls[i].text), FirstQualifyingLine(calls[i]) + 6)

\* C19 witness: the Augmentor ran on a document with two qualifying findings so far
\* apart that the window around the second would start and end elsewhere
C19_Witness ==
    \E i \in 1..Len(calls) :
        /\ AugmentorRan(calls[i])
        /\ Cardinality(QualifyingFindings(calls[i])) = 2
        /\ calls[i].ruleFindings[2].range.startLine - 6 > calls[i].startLine
        /\ calls[i].ruleFindings[2].range.startLine + 6 <= Len(calls[i].text)
        /\ calls[i].endLine < Len(calls[i].text)
        /\ calls[i].llmFindings # <<>>

\* C20: for a document of n lines and an anchor on line a, the window is the interval
\* [max(0, a - 6), min(n, a + 6)): it has between 1 and 12 lines, contains line a, lies
\* within the document, and every augmented finding's range is exactly the window, from
\* character 0 of its first line to the end of its last line.
C20_WindowClippedToDocument ==
    \A i \in 1..Len(calls) :
        calls[i].fetched
            => LET n == Len(calls[i].text)
                   a == FirstQualifyingLine(calls[i])
                   from == calls[i].startLine
                   to == calls[i].endLine
               IN  /\ 0 <= a /\ a < n
                   /\ from = (IF a - 6 > 0 THEN a - 6 ELSE 0)
                   /\ to = (IF a + 6 < n THEN a + 6 ELSE n)
                   /\ to - from >= 1 /\ to - from <= 12
                   /\ from <= a /\ a < to
                   /\ 0 <= from /\ to <= n
                   /\ \A k \in 1..Len(calls[i].llmFindings) :
                         /\ calls[i].llmFindings[k].range.startLine = from
                         /\ calls[i].llmFindings[k].range.startChar = 0
                         /\ calls[i].llmFindings[k].range.endLine = to - 1
                         /\ calls[i].llmFindings[k].range.endLine >= from
                         /\ calls[i].llmFindings[k].range.endChar = Len(calls[i].text[to])

\* C20 witness: a full window of 12 lines strictly inside the document, reported as the
\* range of an augmented finding whose last line is not empty
C20_Witness ==
    \E i \in 1..Len(calls) :
        /\ calls[i].fetched
        /\ calls[i].startLine > 0
        /\ calls[i].endLine < Len(calls[i].text)
        /\ calls[i].endLine - calls[i].startLine = 12
        /\ calls[i].llmFindings # <<>>
        /\ calls[i].llmFindings[1].range.endChar > 0

(***************************************************************************)
(* The configuration in force (checked under SpecConfigures).              *)
(***************************************************************************)
\* the value of field in the latest recorded call that supplied it, or <<>> if none did
LatestSupplied(field) ==
    LET supplying == {j \in 1..Len(configured) : configured[j][field] # None}
    IN  IF supplying = {}
        THEN None
        ELSE configured[CHOOSE j \in supplying : \A k \in supplying : k <= j][field]

\* C24: after any sequence of configureAnalyzer calls the flag in force is the explicit
\* enableLLM of the latest call that supplied one (an explicit false overriding a default
\* of true), or the environment default if no call did, and the provider is the one of
\* the latest call that supplied one; calls that omit a field leave it as it was.  An
\* analysis that needs context then returns at the configuration gate exactly when that
\* flag is false, and otherwise awaits that provider.
C24_LatestSuppliedWins ==
    LET flag == IF LatestSupplied("enableLLM") = None
                THEN DEFAULT_ENABLE_LLM
                ELSE LatestSupplied("enableLLM")[1]
    IN  /\ llmEnabled = LatestSupplied("enableLLM")
        /\ apiKeyProvider = LatestSupplied("getApiKey")
        /\ \A i \in 1..Len(calls) :
              /\ calls[i].exit = 48 <=> ~flag
              /\ calls[i].pc = "awaitKey" <=> flag
              /\ calls[i].pc = "awaitKey" => calls[i].provider = LatestSupplied("getApiKey")

\* C24 witness: with an environment default of true, a call that disabled augmentation
\* and supplied a provider was followed by a call that supplied another provider only and
\* by a call that supplied nothing; the analysis returned at the configuration gate
C24_Witness ==
    /\ DEFAULT_ENABLE_LLM
    /\ configured = <<[getApiKey |-> Some("secretStorage"), enableLLM |-> Some(FALSE)],
                      [getApiKey |-> Some("environment"), enableLLM |-> None],
                      [getApiKey |-> None, enableLLM |-> None]>>
    /\ llmEnabled = Some(FALSE)
    /\ apiKeyProvider = Some("environment")
    /\ Len(calls) = 1
    /\ calls[1].exit = 48

(***************************************************************************)
(* The data model of the findings returned (checked under SpecReplies).    *)
(***************************************************************************)
\* the items of a reply that carry a non-empty ruleId and message, in order
SurvivingItems(body) ==
    SelectSeq(body.items,
              LAMBDA item : /\ item.ruleId # None /\ item.ruleId # Some("")
                            /\ item.message # None /\ item.message # Some(""))

\* C21 (as claimed): every finding analyzePython returns has a severity of
\* hint/info/warning/error and a confidence of high/medium/low, and every augmented
\* finding has needsContext false, a non-empty ruleId and message, and confidence low
\* when its item omits the confidence.
C21_FindingsFitDataModel ==
    \A i \in 1..Len(calls) :
        Returned(calls[i])
            => \A k \in 1..Len(calls[i].result) :
                  LET finding == calls[i].result[k]
                      own == Len(calls[i].ruleFindings)
                  IN  /\ finding.severity \in {"hint", "info", "warning", "error"}
                      /\ finding.confidence \in {"high", "medium", "low"}
                      /\ k > own
                           => /\ finding.needsContext = FALSE
                              /\ finding.ruleId # ""
                              /\ finding.message # None /\ finding.message # Some("")
                              /\ SurvivingItems(calls[i].body)[k - own].confidence = None
                                    => finding.confidence = "low"

(***************************************************************************)
(* Overlapping analyzeAndPublish invocations (checked under SpecPairs).    *)
(***************************************************************************)
\* C14: whenever an analyzeAndPublish invocation completes, the diagnostics held for
\* its document become the diagnostics of that invocation's result, whatever other
\* invocations for the document were submitted or have completed.
C14_LastCompletionWins ==
    [][\A i \in 1..Len(calls) :
          (calls[i].pc # "published" /\ calls'[i].pc = "published")
             => collection'[1][calls[i].uri] = ToDiagnostics(calls[i].result, calls[i].reason)]_vars

\* C14 witness: two overlapping invocations for one document; the first, on the older
\* text, waited for the service and completed last, and its diagnostics are held in
\* place of those computed from the newer text
C14_Witness ==
    /\ Len(calls) = 2
    /\ calls[1].caller = "publish" /\ calls[2].caller = "publish"
    /\ calls[1].uri = calls[2].uri
    /\ calls[1].text # calls[2].text
    /\ calls[1].fetched
    /\ calls[1].pc = "published" /\ calls[2].pc = "published"
    /\ calls[1].diagnostics # calls[2].diagnostics
    /\ collection[1][calls[1].uri] = calls[1].diagnostics

(***************************************************************************)
(* Properties of the event handlers (checked under SpecExtension).         *)
(***************************************************************************)
\* this step called handleDocumentEvent once
OneEventDelivered ==
    Len(events') = Len(events) + 1

\* the event this step delivered
DeliveredEvent ==
    events'[Len(events')]

\* C11: a step that delivers an open, change or save event of a document that is not a
\* Python document leaves the handled-URI list, the analyses, the published
\* diagnostics and the handling log as they were.
C11_NonPythonEventIgnored ==
    [][(OneEventDelivered /\ DeliveredEvent.languageId # "python")
          => UNCHANGED <<handledPythonUris, calls, collection, debugLog,
                         initialScanSuppression>>]_vars

\* C11 witness: a change event of the plain-text document was delivered after a Python
\* document had been handled
C11_Witness ==
    /\ handledPythonUris # <<>>
    /\ \E k \in 1..Len(events) :
           /\ events[k].languageId = "plaintext"
           /\ events[k].reason = "onDidChangeTextDocument"

\* the handling-log lines of a document that were written for an opening of it
OpenHandlings(uri) ==
    {k \in 1..Len(debugLog) :
        /\ debugLog[k].uri = uri
        /\ debugLog[k].reason \in {"initial-scan", "onDidOpenTextDocument"}}

\* the openings of a document the extension was told of: by the initial scan of
\* activate() or by an open event of a document opened since
DistinctOpens(uri) ==
    {k \in 1..Len(events) : events[k].uri = uri /\ events[k].distinctOpen}

\* C12 (as claimed): every distinct opening of a Python document is handled exactly
\* once: as many handlings for an opening as there were openings.
C12_EachOpenHandledOnce ==
    \A uri \in Uris : Cardinality(OpenHandlings(uri)) = Cardinality(DistinctOpens(uri))

\* C13: a step that delivers a change or save event of a Python document appends the
\* document's uri to the handled-URI list and starts one analysis of the document's
\* full text, leaving every earlier analysis as it was.
C13_ChangeAndSaveAlwaysHandled ==
    [][(/\ OneEventDelivered
        /\ DeliveredEvent.languageId = "python"
        /\ DeliveredEvent.reason \in {"onDidChangeTextDocument", "onDidSaveTextDocument"})
          => /\ handledPythonUris' = Append(handledPythonUris, DeliveredEvent.uri)
             /\ Len(calls') = Len(calls) + 1
             /\ SubSeq(calls', 1, Len(calls)) = calls
             /\ calls'[Len(calls')].uri = DeliveredEvent.uri
             /\ calls'[Len(calls')].reason = DeliveredEvent.reason
             /\ calls'[Len(calls')].text = docText'[DeliveredEvent.uri]
             /\ calls'[Len(calls')].ruleFindings = RuleScan[docText'[DeliveredEvent.uri]]]_vars

\* C13 witness: a change event started a second analysis of a document while the
\* analysis started by the initial scan was still awaiting its credential
C13_Witness ==
    /\ Len(calls) = 2
    /\ calls[1].uri = calls[2].uri
    /\ calls[1].pc = "awaitKey"
    /\ calls[2].reason = "onDidChangeTextDocument"
    /\ handledPythonUris = <<calls[1].uri, calls[2].uri>>

(***************************************************************************)
(* Properties of the scope stack (checked under SpecScope).  Every prefix  *)
(* of a text is a state of the scan, so a statement about the line just    *)
(* scanned, in every state, is a statement about every line of every text. *)
(***************************************************************************)
\* the line just scanned and its indentation
LastLine ==
    lines[Len(lines)]

LastIndent ==
    IndentOf(LastLine)

\* the inside-loop flag the scan computed on the line just scanned
LastInsideLoop ==
    InsideLoop(loopIndents, LastIndent)

\* line i lies inside a loop by the declarative definition: an earlier header line j
\* such that every line after j up to i is indented strictly deeper than line j
DeclaredInsideLoop(i) ==
    \E j \in 1..(i - 1) :
        /\ IsLoopHeader(lines[j])
        /\ \A k \in (j + 1)..i : IndentOf(lines[k]) > IndentOf(lines[j])

\* C15: on every line of every text the inside-loop flag of the stack-based scan equals
\* the declarative definition, blank and whitespace-only lines counting with their own
\* leading-whitespace length.
C15_FlagMatchesDeclaration ==
    Len(lines) > 0 => (LastInsideLoop <=> DeclaredInsideLoop(Len(lines)))

\* C15 witness: an inner loop was closed by a line that is still inside the outer loop,
\* after a whitespace-only line
C15_Witness ==
    /\ Len(lines) = 4
    /\ IsLoopHeader(lines[1]) /\ IndentOf(lines[1]) = 0
    /\ IsLoopHeader(lines[2]) /\ IndentOf(lines[2]) = 1
    /\ IsBlank(lines[3]) /\ IndentOf(lines[3]) = 2
    /\ ~IsLoopHeader(lines[4]) /\ ~IsBlank(lines[4]) /\ IndentOf(lines[4]) = 1
    /\ LastInsideLoop
    /\ loopIndents = <<0>>

\* the stack is strictly increasing from bottom to top
StrictlyIncreasing(stack) ==
    \A k \in 1..(Len(stack) - 1) : stack[k] < stack[k + 1]

\* the entries of a stack that are smaller than an indentation, in order
EntriesBelow(stack, indent) ==
    SelectSeq(stack, LAMBDA e : e < indent)

\* C16: after every line the scope stack is strictly increasing from bottom to top, and
\* the pops of a line remove exactly the entries that are greater than or equal to the
\* line's indentation (a header then pushes its own indentation).
C16_StackStrictlyIncreasing ==
    [][LET line == lines'[Len(lines')]
           kept == EntriesBelow(loopIndents, IndentOf(line))
       IN  /\ StrictlyIncreasing(loopIndents')
           /\ loopIndents' = IF IsLoopHeader(line)
                             THEN Append(kept, IndentOf(line))
                             ELSE kept]_vars

\* C16 witness: two nested loops were open and a line at the outer header's indentation
\* closed both
C16_Witness ==
    /\ Len(lines) = 4
    /\ IsLoopHeader(lines[1]) /\ IndentOf(lines[1]) = 0
    /\ IsLoopHeader(lines[2]) /\ IndentOf(lines[2]) = 2
    /\ IndentOf(lines[3]) = 2 /\ ~IsLoopHeader(lines[3])
    /\ IndentOf(lines[4]) = 0 /\ ~IsLoopHeader(lines[4])
    /\ loopIndents = <<>>

\* the rules that report only inside a loop
InsideLoopRules ==
    {"loop.string-concat", "loop.re-compile", "loop.pop-front", "ds.list-membership"}

\* C17: when the line scanned is a loop header, its inside-loop flag is true exactly when
\* a loop opened earlier with strictly smaller indentation is still open; otherwise the
\* header adds no finding of an inside-loop rule and the loop it opens is the only open
\* loop, so that only a later, strictly deeper line is inside it.
C17_HeaderOutsideOwnLoop ==
    [][LET line == lines'[Len(lines')]
           indent == IndentOf(line)
           enclosing == \E k \in 1..Len(loopIndents) : loopIndents[k] < indent
           flag == InsideLoop(loopIndents', indent)
       IN  IsLoopHeader(line)
             => /\ flag <=> enclosing
                /\ loopIndents'[Len(loopIndents')] = indent
                /\ ~InsideLoop(<<indent>>, indent)
                /\ ~enclosing
                     => /\ loopIndents' = <<indent>>
                        /\ \A k \in (Len(findings) + 1)..Len(findings') :
                              findings'[k].ruleId \notin InsideLoopRules]_vars

\* C17 witness: a header that tests membership in a literal was scanned at the top
\* level, where it reported nothing, and again inside the loop it opened, where it did
C17_Witness ==
    /\ Len(lines) = 2
    /\ lines[1] = BodyForLiteral
    /\ lines[2] = Indented(1, BodyForLiteral)
    /\ loopIndents = <<0, 1>>
    /\ Len(findings) = 1
    /\ findings[1].ruleId = "ds.list-membership"
    /\ findings[1].range.startLine = 1

(***************************************************************************)
(* Properties of the binding map (checked under SpecBindings).  Every      *)
(* prefix of a text is a state, so a property of the map after the line    *)
(* just scanned is a property of the map at every line of every text.      *)
(***************************************************************************)
\* the lines scanned so far that assign a list or tuple literal to name
LiteralAssignments(name) ==
    {j \in 1..Len(lines) : AssignMatch(lines[j]) # <<>> /\ AssignMatch(lines[j])[1] = name}

\* the kind of the latest literal assigned to name so far
LatestKind(name) ==
    LET latest == CHOOSE j \in LiteralAssignments(name) :
                      \A k \in LiteralAssignments(name) : k <= j
    IN  IF AssignMatch(lines[latest])[2] = "[" THEN "list" ELSE "tuple"

\* C22: at every line of a scan the names bound are exactly those a list or tuple
\* literal was assigned to on that line or an earlier one, whatever the indentation,
\* function headers or non-literal reassignments in between (so no name is ever
\* dropped); each is bound to the kind of the latest such assignment; and a membership
\* test inside a loop against such a name, the one bound on the same line included, is
\* reported with high confidence under that kind.
C22_BindingsPersist ==
    /\ \A name \in DOMAIN collectionLiteralKindByVar : LiteralAssignments(name) # {}
    /\ \A j \in 1..Len(lines) :
          AssignMatch(lines[j]) # <<>>
            => LET name == AssignMatch(lines[j])[1]
               IN  /\ name \in DOMAIN collectionLiteralKindByVar
                   /\ collectionLiteralKindByVar[name] = LatestKind(name)
    /\ (/\ Len(lines) > 0
        /\ LastInsideLoop
        /\ InVarMatch(LastLine) # <<>>
        /\ LiteralAssignments(InVarMatch(LastLine)[1]) # {})
          => \E k \in FindingsOn(Len(lines)) :
                /\ findings[k].ruleId = "ds.list-membership"
                /\ findings[k].confidence = "high"
                /\ findings[k].message[2] = LatestKind(InVarMatch(LastLine)[1])

\* C22 witness: a was bound to a list at the top level, assigned a non-literal inside a
\* loop, and then bound to a tuple on a line of the loop that tests membership in it:
\* the test was reported against a tuple
C22_Witness ==
    /\ Len(lines) = 4
    /\ lines[1] = BodyBindList
    /\ lines[2] = BodyFor
    /\ lines[3] = Indented(1, BodyRebind)
    /\ lines[4] = Indented(1, BodyBindAndTest)
    /\ collectionLiteralKindByVar[<<"a">>] = "tuple"
    /\ \E k \in FindingsOn(4) :
          /\ findings[k].confidence = "high"
          /\ findings[k].message[2] = "tuple"

(***************************************************************************)
(* Properties of the finding ranges (checked under SpecRanges) on the      *)
(* findings of the line just scanned.                                      *)
(***************************************************************************)
\* the token a rule's finding is located by on a line
RepresentativeToken(ruleId, line) ==
    CASE ruleId = "loop.string-concat" ->
             IF ExplicitConcatPattern(line) THEN TokPlus ELSE TokPlusEq
      [] ruleId = "loop.re-compile" -> TokReCompile
      [] ruleId = "loop.pop-front" -> TokPop
      [] ruleId = "ds.list-membership" -> TokSpIn
      [] ruleId = "pandas.apply-rowwise" -> TokApply
      [] ruleId = "pandas.iterrows" -> TokIterrows

\* the 0-based positions at which token occurs in line
Occurrences(line, token) ==
    {i \in 0..(Len(line) - Len(token)) : SubSeq(line, i + 1, i + Len(token)) = token}

\* C23: the range of every rule finding is a non-empty span of its triggering line:
\* startLine = endLine = the line's index, startChar is the first index of the rule's
\* representative token or 0 when the line does not hold it, endChar is startChar plus
\* the token's length (at least 1), and 0 <= startChar < endChar <= the line's length.
C23_RangeInsideLine ==
    \A k \in 1..Len(findings) :
        LET range == findings[k].range
            line == lines[range.startLine + 1]
            token == RepresentativeToken(findings[k].ruleId, line)
            length == IF Len(token) > 1 THEN Len(token) ELSE 1
        IN  k \in FindingsOn(Len(lines))
              => /\ range.startLine = Len(lines) - 1
                 /\ range.endLine = range.startLine
                 /\ IF Occurrences(line, token) = {}
                    THEN range.startChar = 0
                    ELSE /\ range.startChar \in Occurrences(line, token)
                         /\ \A i \in Occurrences(line, token) : range.startChar <= i
                 /\ range.endChar = range.startChar + length
                 /\ 0 <= range.startChar
                 /\ range.startChar < range.endChar
                 /\ range.endChar <= Len(line)

\* C23 witness: the shortest line a membership test is reported on, which does not hold
\* ' in ', was scanned inside a loop: its range is the whole line, 0 to 4
C23_Witness ==
    /\ Len(lines) = 2
    /\ lines[1] = BodyFor
    /\ lines[2] = Indented(1, BodyInParen)
    /\ Len(findings) = 1
    /\ findings[1].range = [startLine |-> 1, startChar |-> 0, endLine |-> 1, endChar |-> 4]
    /\ Len(lines[2]) = 4

=============================================================================
